---------------------------- MODULE Spec2Model ----------------------------
(***************************************************************************)
(* A model of webarchiver's deduplication engine (src/index.js):           *)
(* the fragmenter, the match finder, the paged record store, the           *)
(* replacement applier, the identifier allocator and the pass loop.        *)
(*                                                                         *)
(* A JavaScript string is modelled as a sequence of one-character strings, *)
(* so that length, prefix, substring and concatenation are computed and    *)
(* not assumed.  A JavaScript object is a TLA+ record or function; an      *)
(* absent property is an absent field.                                     *)
(***************************************************************************)
EXTENDS Integers, Sequences, FiniteSets, TLC

VARIABLES
    pc,           \* position of the program: which call or loop step is next
    options,      \* this.options, as merged by createOptions
    inPaths,      \* the input files found by globby: their kind and content
    batch,        \* this.batch: the two paged collections, 'files' and 'matches'
    varName,      \* this.varName: the allocator's current identifier
    pass,         \* loop variable of processFiles
    fileKey,      \* loop variable of processFiles
    escaped,      \* per file, the string handed to createFragments in pass 0
    new_matches,  \* the list findDuplicates returned in the last step
    reported,     \* history of the last step: the addMatch calls of fragmentMatches
    judged,       \* history of the last step: the decisions of processNewMatches
    issued,       \* history: (match key, identifier) each time an identifier is spent
    written,      \* the output directory: what has been written to each path
    arg,          \* the arguments of the call under test (component specifications)
    ret           \* the value the call returned (component specifications)

vars == <<pc, options, inPaths, batch, varName, pass, fileKey, escaped,
          new_matches, reported, judged, issued, written, arg, ret>>

(***************************************************************************)
(* Bounds of the model.                                                    *)
(***************************************************************************)
MaxStrLen == 4        \* longest input string of the fragmenter specification
MaxWords  == 4        \* words in the input files of a run, all files together
MaxFrags  == 4        \* fragments in the array handed to doReplace
MaxSeqLen == 4        \* fragments in a sequence handed to fragmentMatches

(***************************************************************************)
(* Strings.                                                                *)
(***************************************************************************)
Min(x, y) == IF x <= y THEN x ELSE y

\* s.substring(from, to), 0-based, to exclusive; both indices are clamped to
\* the length of s.
substring(s, from, to) ==
    LET f == Min(from, Len(s))
        t == Min(to, Len(s))
    IN  IF t <= f THEN <<>> ELSE SubSeq(s, f + 1, t)

\* str.indexOf(part) === 0
startsWith(str, part) ==
    Len(part) <= Len(str) /\ SubSeq(str, 1, Len(part)) = part

\* Array.prototype.join(''): the concatenation of a sequence of strings.
RECURSIVE join(_)
join(ss) == IF ss = <<>> THEN <<>> ELSE Head(ss) \o join(Tail(ss))

\* Array.prototype.filter(Boolean) on an array of strings: drops the empty ones.
RECURSIVE filterBoolean(_)
filterBoolean(ss) ==
    IF ss = <<>> THEN <<>>
    ELSE IF Head(ss) = <<>> THEN filterBoolean(Tail(ss))
    ELSE <<Head(ss)>> \o filterBoolean(Tail(ss))

\* All strings over alphabet A of length at most n.
RECURSIVE StringsUpTo(_, _)
StringsUpTo(A, n) ==
    IF n = 0 THEN {<<>>}
    ELSE LET shorter == StringsUpTo(A, n - 1)
         IN  shorter \cup {Append(s, c) : s \in shorter, c \in A}

(***************************************************************************)
(* Fragmenter.                                                             *)
(***************************************************************************)
\* The end of the longest run of characters outside B that starts at p (0-based).
RECURSIVE classRun(_, _, _)
classRun(str, p, B) ==
    IF p < Len(str) /\ str[p + 1] \notin B THEN classRun(str, p + 1, B) ELSE p

\* Faulty variant: the middle class written [^E]*, so that a run swallows
\* leading-set characters.
reExecLeadingInRun(str, q, dedupe) ==
    LET S  == dedupe.startsWith
        E  == dedupe.endsWith
        p1 == IF q < Len(str) /\ str[q + 1] \in S THEN q + 1 ELSE q
        p2 == classRun(str, p1, E)
    IN  IF p2 < Len(str) /\ str[p2 + 1] \in E THEN p2 + 1 ELSE p2

\* One match of the regular expression ([S]?[^SE]*[E]?){1} attempted at
\* position q: the index just after the match.  Every part is optional and
\* greedy, so the match always succeeds and never backtracks.
reExec(str, q, dedupe) ==
    LET S  == dedupe.startsWith
        E  == dedupe.endsWith
        p1 == IF q < Len(str) /\ str[q + 1] \in S THEN q + 1 ELSE q
        p2 == classRun(str, p1, S \cup E)
    IN  IF p2 < Len(str) /\ str[p2 + 1] \in E THEN p2 + 1 ELSE p2

\* String.prototype.split(re) with one capture group around the whole
\* expression: between two matches the text since the last match is pushed,
\* then the captured match; a match that ends where the last one ended makes
\* no progress and the scan moves on by one character.
RECURSIVE splitLoop(_, _, _, _, _)
splitLoop(str, p, q, A, dedupe) ==
    IF q >= Len(str) THEN Append(A, substring(str, p, Len(str)))
    ELSE LET e == reExec(str, q, dedupe)
         IN  IF e = p THEN splitLoop(str, p, q + 1, A, dedupe)
             ELSE splitLoop(str, e, e,
                            A \o <<substring(str, p, q), substring(str, q, e)>>,
                            dedupe)

split(str, dedupe) ==
    IF Len(str) = 0 THEN <<>> ELSE splitLoop(str, 0, 0, <<>>, dedupe)

\* Faulty variant: the regular expression without its capture group, so that
\* split returns only the (empty) text between the matches.
RECURSIVE splitLoopNoCapture(_, _, _, _, _)
splitLoopNoCapture(str, p, q, A, dedupe) ==
    IF q >= Len(str) THEN Append(A, substring(str, p, Len(str)))
    ELSE LET e == reExec(str, q, dedupe)
         IN  IF e = p THEN splitLoopNoCapture(str, p, q + 1, A, dedupe)
             ELSE splitLoopNoCapture(str, e, e,
                                     Append(A, substring(str, p, q)), dedupe)

createFragmentsNoCapture(str) ==
    filterBoolean(IF Len(str) = 0 THEN <<>>
                  ELSE splitLoopNoCapture(str, 0, 0, <<>>, options.dedupe))

createFragments(str) == filterBoolean(split(str, options.dedupe))

(***************************************************************************)
(* Identifier allocator and reference tokens.                              *)
(***************************************************************************)
Digits  == <<"0", "1", "2", "3", "4", "5", "6", "7", "8", "9">>
Letters == <<"a", "b", "c", "d", "e", "f", "g", "h", "i", "j", "k", "l", "m",
             "n", "o", "p", "q", "r", "s", "t", "u", "v", "w", "x", "y", "z">>

indexIn(seq, c) == CHOOSE i \in 1..Len(seq) : seq[i] = c

\* String.fromCharCode(c.charCodeAt(0) + 1) for c in 0-8 and a-y.
nextChar(c) ==
    IF \E i \in 1..9 : Digits[i] = c THEN Digits[indexIn(Digits, c) + 1]
    ELSE Letters[indexIn(Letters, c) + 1]

\* The number of 'z' characters at the end of str.
RECURSIVE trailingZs(_)
trailingZs(str) ==
    IF str # <<>> /\ str[Len(str)] = "z"
    THEN 1 + trailingZs(SubSeq(str, 1, Len(str) - 1)) ELSE 0

zeros(n) == [i \in 1..n |-> "0"]

\* Faulty variant: '9' is flipped as 'z' is.
RECURSIVE trailingZsOrNines(_)
trailingZsOrNines(str) ==
    IF str # <<>> /\ str[Len(str)] \in {"z", "9"}
    THEN 1 + trailingZsOrNines(SubSeq(str, 1, Len(str) - 1)) ELSE 0

nextVarNameFlipNine(str) ==
    LET z      == trailingZsOrNines(str)
        change == Len(str) - 1 - z
    IN  IF change < 0 THEN <<"a">> \o zeros(Len(str))
        ELSE SubSeq(str, 1, change) \o <<nextChar(str[change + 1])>> \o zeros(z)

\* Faulty variant: the full flip starts the longer string with '0'.
nextVarNameDigitFirst(str) ==
    LET z      == trailingZs(str)
        change == Len(str) - 1 - z
    IN  IF change < 0 THEN zeros(Len(str) + 1)
        ELSE LET change_char == str[change + 1]
             IN  SubSeq(str, 1, change)
                 \o <<IF change_char = "9" THEN "a" ELSE nextChar(change_char)>>
                 \o zeros(z)

\* Faulty variant: '9' is incremented as any other character is, which
\* gives the character behind it in the character set, ':'.
nextVarNameNoNine(str) ==
    LET z      == trailingZs(str)
        change == Len(str) - 1 - z
    IN  IF change < 0 THEN <<"a">> \o zeros(Len(str))
        ELSE LET change_char == str[change + 1]
             IN  SubSeq(str, 1, change)
                 \o <<IF change_char = "9" THEN ":" ELSE nextChar(change_char)>>
                 \o zeros(z)

\* Faulty variant: the full flip keeps the length of the string.
nextVarNameWrap(str) ==
    LET z      == trailingZs(str)
        change == Len(str) - 1 - z
    IN  IF change < 0 THEN <<"a">> \o zeros(Len(str) - 1)
        ELSE LET change_char == str[change + 1]
             IN  SubSeq(str, 1, change)
                 \o <<IF change_char = "9" THEN "a" ELSE nextChar(change_char)>>
                 \o zeros(z)

nextVarName(str) ==
    LET z      == trailingZs(str)
        change == Len(str) - 1 - z          \* 0-based index of the char to change
    IN  IF change < 0 THEN <<"a">> \o zeros(Len(str))
        ELSE LET change_char == str[change + 1]
             IN  SubSeq(str, 1, change)
                 \o <<IF change_char = "9" THEN "a" ELSE nextChar(change_char)>>
                 \o zeros(z)

\* match.var is null (JSON keeps it) or absent (undefined); both are falsy.
NULL == <<>>

varCode(v) == <<"$">> \o (IF v = NULL THEN <<"n", "u", "l", "l">> ELSE v)

shortCode(v) == <<"'", ".">> \o varCode(v) \o <<".", "'">>

\* addSlashes: replace(/\\/g, '\\') writes one backslash for each backslash,
\* replace(/'/g, "\\'") writes backslash-quote for each quote.
RECURSIVE addSlashes(_)
addSlashes(str) ==
    IF str = <<>> THEN <<>>
    ELSE (IF Head(str) = "'" THEN <<"\\", "'">> ELSE <<Head(str)>>)
         \o addSlashes(Tail(str))

(***************************************************************************)
(* Replacement applier.                                                    *)
(***************************************************************************)
\* The while loop of doReplace: extends the window while the next fragment
\* continues the match string.
RECURSIVE seekRun(_, _, _, _)
seekRun(frags, str, seek, offset) ==
    IF /\ seek < Len(frags)
       /\ offset < Len(str)
       /\ substring(str, offset, offset + Len(frags[seek + 1])) = frags[seek + 1]
    THEN seekRun(frags, str, seek + 1, offset + Len(frags[seek + 1]))
    ELSE [seek |-> seek, offset |-> offset]

\* The for loop of doReplace; frag is the 0-based loop index.
RECURSIVE doReplaceLoop(_, _, _, _)
doReplaceLoop(frags, frag, match, file) ==
    IF frag >= Len(frags)
    THEN [frags |-> filterBoolean(frags), match |-> match, file |-> file]
    ELSE IF startsWith(match.str, frags[frag + 1])
    THEN LET w == seekRun(frags, match.str, frag + 1, Len(frags[frag + 1]))
         IN  IF w.offset >= Len(match.str)
             THEN doReplaceLoop(
                      [i \in 1..Len(frags) |->
                          IF i = frag + 1 THEN shortCode(match.var)
                          ELSE IF i > frag + 1 /\ i <= w.seek THEN <<>>
                          ELSE frags[i]],
                      w.seek,
                      [match EXCEPT !.reps = @ + 1],
                      [f \in {"deduped"} |-> TRUE] @@ file)
             ELSE doReplaceLoop(frags, frag + 1, match, file)
    ELSE doReplaceLoop(frags, frag + 1, match, file)

\* Faulty variant: accepts a window as soon as its first fragment is a
\* prefix of the match string, whether or not the window was completed.
RECURSIVE doReplaceLoopPrefixOnly(_, _, _, _)
doReplaceLoopPrefixOnly(frags, frag, match, file) ==
    IF frag >= Len(frags)
    THEN [frags |-> filterBoolean(frags), match |-> match, file |-> file]
    ELSE IF startsWith(match.str, frags[frag + 1])
    THEN LET w == seekRun(frags, match.str, frag + 1, Len(frags[frag + 1]))
         IN  doReplaceLoopPrefixOnly(
                      [i \in 1..Len(frags) |->
                          IF i = frag + 1 THEN shortCode(match.var)
                          ELSE IF i > frag + 1 /\ i <= w.seek THEN <<>>
                          ELSE frags[i]],
                      w.seek,
                      [match EXCEPT !.reps = @ + 1],
                      [f \in {"deduped"} |-> TRUE] @@ file)
    ELSE doReplaceLoopPrefixOnly(frags, frag + 1, match, file)

doReplacePrefixOnly(frags, match, file) ==
    doReplaceLoopPrefixOnly(frags, 0, match, file)

\* Faulty variant: the file is marked whether or not a run was replaced.
doReplaceMarkAlways(frags, match, file) ==
    doReplaceLoop(frags, 0, match, [f \in {"deduped"} |-> TRUE] @@ file)

\* Faulty variant: the counter grows by one for a call that replaced runs,
\* however many.
doReplaceCountOnce(frags, match, file) ==
    LET r == doReplaceLoop(frags, 0, match, file)
    IN  [r EXCEPT !.match.reps =
            IF r.match.reps > match.reps THEN match.reps + 1 ELSE match.reps]

\* doReplace(frags, match, file, fileKey): the new fragment array, and the
\* match and file objects as it leaves them.
doReplace(frags, match, file) == doReplaceLoop(frags, 0, match, file)

(***************************************************************************)
(* Paged record store.  A collection b is this.batch[name] together with   *)
(* the page files it has written: b.disk maps a page number to the data    *)
(* saved for it (jsonfile writes JSON, which keeps every field the records *)
(* of this model have).  b.enoent records a read of a page file that was   *)
(* never written, which makes jsonfile.readFileSync throw.                 *)
(***************************************************************************)
\* The value undefined, when it is stored under a key.
UNDEFINED == [undefined |-> TRUE]

batchCreate ==
    [batches |-> 1, current |-> 0, totalLen |-> 0, lastLen |-> 0,
     data |-> <<>>, disk |-> <<>>, enoent |-> FALSE]

\* JSON.stringify leaves out a key whose value is undefined.
stringify(data) ==
    [k \in {d \in DOMAIN data : data[d] # UNDEFINED} |-> data[k]]

batchSaveCurrent(b) ==
    [b EXCEPT !.disk = (b.current :> stringify(b.data)) @@ b.disk]

\* batchLoad(name, batch), batch being a page number or 'last' (resolved by
\* the caller as b.batches - 1).
batchLoad(b, page) ==
    IF b.current = page THEN b
    ELSE IF page \notin DOMAIN b.disk THEN [b EXCEPT !.enoent = TRUE]
    ELSE [b EXCEPT !.data = b.disk[page], !.current = page]

\* data[search] !== undefined
holds(b, search) == search \in DOMAIN b.data /\ b.data[search] # UNDEFINED

\* Object keys that are integers are enumerated in ascending order.
RECURSIVE sortedKeys(_)
sortedKeys(K) ==
    IF K = {} THEN <<>>
    ELSE LET least == CHOOSE k \in K : \A o \in K : k <= o
         IN  <<least>> \o sortedKeys(K \ {least})

\* batchFilter(name, prop, value): the first record of the resident page
\* whose property equals value, as a set holding at most that key.
batchFilter(b, prop, value) ==
    LET hits == {k \in DOMAIN b.data :
                    prop \in DOMAIN b.data[k] /\ b.data[k][prop] = value}
    IN  IF hits = {} THEN {} ELSE {CHOOSE k \in hits : \A o \in hits : k <= o}

\* batchFilter reads data[key][prop] for each key in turn until one has the
\* value: a key that holds undefined and comes before it makes the read of
\* the property throw a TypeError.
batchFilterThrows(b, prop, value) ==
    \E k \in DOMAIN b.data :
        /\ b.data[k] = UNDEFINED
        /\ \A h \in batchFilter(b, prop, value) : k < h

\* value !== undefined, for the value that batchRead takes from the
\* resident page: by key (prop = "") or through batchFilter.
hasValue(b, search, prop) ==
    IF prop = "" THEN holds(b, search) ELSE batchFilter(b, prop, search) # {}

\* The while loop of batchRead: pages are loaded in turn, wrapping after the
\* last one, until the value is found or the scan is back at the start page.
RECURSIVE batchReadLoop(_, _, _, _, _)
batchReadLoop(b, cur, start, search, prop) ==
    LET next == IF cur + 1 >= b.batches THEN 0 ELSE cur + 1
    IN  IF next = start THEN b
        ELSE LET loaded == batchLoad(b, next)
             IN  IF hasValue(loaded, search, prop) \/ loaded.enoent THEN loaded
                 ELSE batchReadLoop(loaded, next, start, search, prop)

\* Faulty variant: the resident page is not written before the scan.
batchReadPagesNoFlush(b, search, prop) ==
    IF hasValue(b, search, prop) THEN b
    ELSE batchReadLoop(b, b.current, b.current, search, prop)

\* The pages batchRead goes through: none when the resident page has the
\* value; otherwise the resident page is saved when there are several pages
\* and the loop runs.
batchReadPages(b, search, prop) ==
    IF hasValue(b, search, prop) THEN b
    ELSE batchReadLoop(IF b.batches > 1 THEN batchSaveCurrent(b) ELSE b,
                       b.current, b.current, search, prop)

\* The key of the value in the page the read has ended on, as a set that is
\* empty when there is none.
batchReadKey(after, search, prop) ==
    IF prop = "" THEN (IF holds(after, search) THEN {search} ELSE {})
    ELSE batchFilter(after, prop, search)

\* What batchRead returns: the key of the value (-1 for undefined), with
\* the collection as the read leaves it.
batchReadValue(after, hit) ==
    [b |-> after, found |-> hit # {},
     key |-> IF hit = {} THEN -1 ELSE CHOOSE k \in hit : TRUE]

\* batchRead(name, search, prop); prop = "" stands for a read by key.
batchReadFrom(after, search, prop) ==
    batchReadValue(after, batchReadKey(after, search, prop))

batchRead(b, search, prop) ==
    batchReadFrom(batchReadPages(b, search, prop), search, prop)

\* Faulty variant: a new page is started one record late.
batchInsertLate(b, key, value) ==
    LET k == IF key = -1 THEN b.totalLen ELSE key
    IN  IF b.lastLen > options.batchSize
        THEN [b |-> [batchSaveCurrent(b) EXCEPT
                        !.data = (k :> value),
                        !.lastLen = 1,
                        !.totalLen = @ + 1,
                        !.batches = @ + 1,
                        !.current = b.batches],
              key |-> k]
        ELSE LET last == IF b.current # b.batches - 1
                         THEN batchLoad(batchSaveCurrent(b), b.batches - 1)
                         ELSE b
             IN  [b |-> [last EXCEPT
                            !.data = (k :> value) @@ @,
                            !.lastLen = @ + 1,
                            !.totalLen = @ + 1],
                  key |-> k]

\* batchInsert(name, key, value); key = -1 stands for null.
batchInsert(b, key, value) ==
    LET k == IF key = -1 THEN b.totalLen ELSE key
    IN  IF b.lastLen >= options.batchSize
        THEN [b |-> [batchSaveCurrent(b) EXCEPT
                        !.data = (k :> value),
                        !.lastLen = 1,
                        !.totalLen = @ + 1,
                        !.batches = @ + 1,
                        !.current = b.batches],
              key |-> k]
        ELSE LET last == IF b.current # b.batches - 1
                         THEN batchLoad(batchSaveCurrent(b), b.batches - 1)
                         ELSE b
             IN  [b |-> [last EXCEPT
                            !.data = (k :> value) @@ @,
                            !.lastLen = @ + 1,
                            !.totalLen = @ + 1],
                  key |-> k]

\* batchUpdate(name, key, value): its first statement assigns the result of
\* batchRead to value, so the record found is stored over itself, and on a
\* miss it is undefined that is inserted.
batchUpdateRead(r, key) ==
    IF r.found THEN [r.b EXCEPT !.data[key] = r.b.data[key]]
    ELSE batchInsert(r.b, key, UNDEFINED).b

batchUpdate(b, key, value) == batchUpdateRead(batchRead(b, key, ""), key)

\* Every record of a collection, whichever page holds it: the resident page
\* as it is in memory, the other pages as they were last written.
RECURSIVE pagesData(_, _)
pagesData(b, page) ==
    IF page >= b.batches THEN <<>>
    ELSE (IF page = b.current THEN b.data
          ELSE IF page \in DOMAIN b.disk THEN b.disk[page] ELSE <<>>)
         @@ pagesData(b, page + 1)

records(b) == pagesData(b, 0)

(***************************************************************************)
(* Match finder.  t stands for 'this' during a call: t.files and t.matches *)
(* are the two collections, t.varName the current identifier,              *)
(* t.new_matches the array the caller passed, t.reported and t.issued the  *)
(* histories kept for the properties below.                                *)
(***************************************************************************)
\* jsonfile.readFileSync has thrown: the exception leaves every loop and
\* function between the read and the caller of webArchiver.
thrown(t) == t.files.enoent \/ t.matches.enoent

\* Faulty variant: positions are pushed without the indexOf test.
addOccAlways(occ, name, pos) ==
    IF name \in DOMAIN occ THEN [occ EXCEPT ![name] = Append(@, pos)]
    ELSE (name :> <<pos>>) @@ occ

\* match.occ[name] gains pos unless it already holds it.
addOcc(occ, name, pos) ==
    IF name \in DOMAIN occ
    THEN IF \E n \in 1..Len(occ[name]) : occ[name][n] = pos THEN occ
         ELSE [occ EXCEPT ![name] = Append(@, pos)]
    ELSE (name :> <<pos>>) @@ occ

\* The branch of addMatch for a string that has a record: the offsets are
\* added to the record, the record is updated and its key is pushed.
addMatchFound(t, mutated, key) ==
    [t EXCEPT !.matches = batchUpdate(mutated, key, mutated.data[key]),
              !.new_matches = Append(@, key)]

\* The branch for a string that has none: ins is the result of the insert.
addMatchInserted(t, ins) ==
    [t EXCEPT !.matches = ins.b, !.new_matches = Append(@, ins.key)]

\* addMatch after its batchRead(name, str, 'str'), r being what it returned.
addMatchRead(t, r, a_name, a_pos, b_name, b_pos, str) ==
    IF r.found
    THEN addMatchFound(t,
             [r.b EXCEPT !.data[r.key].occ =
                 addOcc(addOcc(@, a_name, a_pos), b_name, b_pos)],
             r.key)
    ELSE addMatchInserted(t,
             batchInsert(r.b, -1,
                 [str |-> str,
                  occ |-> IF a_name # b_name
                          THEN (a_name :> <<a_pos>>) @@ (b_name :> <<b_pos>>)
                          ELSE (a_name :> <<a_pos, b_pos>>)]))

\* Faulty variant: only the resident page is searched for the string.
addMatchResident(t, a_name, a_pos, b_name, b_pos, str) ==
    addMatchRead(t, batchReadFrom(t.matches, str, "str"),
                 a_name, a_pos, b_name, b_pos, str)

addMatch(t, a_name, a_pos, b_name, b_pos, str) ==
    addMatchRead(t, batchRead(t.matches, str, "str"),
                 a_name, a_pos, b_name, b_pos, str)

\* Faulty variant: the run is never extended beyond its first fragment.
runLengthOne(a, b, i, j, k) == k

\* The while loop of fragmentMatches: the length k of the common run that
\* starts at a[i] and b[j].
RECURSIVE runLength(_, _, _, _, _)
runLength(a, b, i, j, k) ==
    IF i + k < Len(a) /\ j + k < Len(b) /\ a[i + k + 1] = b[j + k + 1]
    THEN runLength(a, b, i, j, k + 1) ELSE k

\* The row of the history of reported matches for a call of addMatch.
reportedAs(t, a_name, a_pos, b_name, b_pos, k, str) ==
    [t EXCEPT !.reported = Append(@, [a_name |-> a_name, b_name |-> b_name,
                                      a_pos |-> a_pos, b_pos |-> b_pos,
                                      k |-> k, str |-> str])]

\* The two for loops of fragmentMatches, i and j being their 0-based indices.
\* After an accepted run i and j are wound forward by k - 1 inside the inner
\* loop, which then goes on with ++j.  fragmentMatchesRun is the body of the
\* inner loop for a common run of k fragments whose string is str.
RECURSIVE fragmentMatchesLoop(_, _, _, _, _, _, _, _)
fragmentMatchesRun(t, a, b, a_name, b_name, min, i, j, k, str) ==
    IF Len(str) >= min
    THEN fragmentMatchesLoop(
             reportedAs(addMatch(t, a_name, i, b_name, j, str),
                        a_name, i, b_name, j, k, str),
             a, b, a_name, b_name, min, i + k - 1, j + k)
    ELSE fragmentMatchesLoop(t, a, b, a_name, b_name, min, i, j + 1)

fragmentMatchesAt(t, a, b, a_name, b_name, min, i, j, k) ==
    fragmentMatchesRun(t, a, b, a_name, b_name, min, i, j, k,
                       join(SubSeq(a, i + 1, i + k)))

fragmentMatchesLoop(t, a, b, a_name, b_name, min, i, j) ==
    IF thrown(t) \/ i >= Len(a) THEN t
    ELSE IF j >= Len(b)
    THEN fragmentMatchesLoop(t, a, b, a_name, b_name, min, i + 1, 0)
    ELSE IF (a_name # b_name \/ i # j) /\ a[i + 1] = b[j + 1]
    THEN fragmentMatchesAt(t, a, b, a_name, b_name, min, i, j,
                           runLength(a, b, i, j, 1))
    ELSE fragmentMatchesLoop(t, a, b, a_name, b_name, min, i, j + 1)

\* Faulty variant: a position of a sequence compared with itself is paired
\* with itself (the test i != j is missing).
RECURSIVE fragmentMatchesLoopSelfPair(_, _, _, _, _, _, _, _)
fragmentMatchesRunSelfPair(t, a, b, a_name, b_name, min, i, j, k, str) ==
    IF Len(str) >= min
    THEN fragmentMatchesLoopSelfPair(
             reportedAs(addMatch(t, a_name, i, b_name, j, str),
                        a_name, i, b_name, j, k, str),
             a, b, a_name, b_name, min, i + k - 1, j + k)
    ELSE fragmentMatchesLoopSelfPair(t, a, b, a_name, b_name, min, i, j + 1)

fragmentMatchesAtSelfPair(t, a, b, a_name, b_name, min, i, j, k) ==
    fragmentMatchesRunSelfPair(t, a, b, a_name, b_name, min, i, j, k,
                               join(SubSeq(a, i + 1, i + k)))

fragmentMatchesLoopSelfPair(t, a, b, a_name, b_name, min, i, j) ==
    IF thrown(t) \/ i >= Len(a) THEN t
    ELSE IF j >= Len(b)
    THEN fragmentMatchesLoopSelfPair(t, a, b, a_name, b_name, min, i + 1, 0)
    ELSE IF a[i + 1] = b[j + 1]
    THEN fragmentMatchesAtSelfPair(t, a, b, a_name, b_name, min, i, j,
                                   runLength(a, b, i, j, 1))
    ELSE fragmentMatchesLoopSelfPair(t, a, b, a_name, b_name, min, i, j + 1)

fragmentMatchesSelfPair(t, a, b, a_name, b_name, min) ==
    fragmentMatchesLoopSelfPair(t, a, b, a_name, b_name, min, 0, 0)

fragmentMatches(t, a, b, a_name, b_name, min) ==
    fragmentMatchesLoop(t, a, b, a_name, b_name, min, 0, 0)

(***************************************************************************)
(* Replacement policy and identifier reservation.                          *)
(***************************************************************************)
\* obj[name] = value, the property being created when absent.
setField(obj, name, value) == (name :> value) @@ obj

\* if (match.allowed): the property is absent until processNewMatches sets it.
isAllowed(match) == "allowed" \in DOMAIN match /\ match.allowed

\* if (match.var): the property is absent at first and null after a release.
hasVar(match) == "var" \in DOMAIN match /\ match.var # NULL

\* if (file.skip), if (file.deduped)
isSet(file, name) == name \in DOMAIN file /\ file[name]

RECURSIVE sumLengths(_, _)
sumLengths(occ, keys) ==
    IF keys = <<>> THEN 0
    ELSE Len(occ[Head(keys)]) + sumLengths(occ, Tail(keys))

setOccTotal(match) ==
    setField(match, "occTotal", sumLengths(match.occ, sortedKeys(DOMAIN match.occ)))

autoMinLength(t) == options.dedupe.minSaving + Len(shortCode(t.varName))

\* Faulty variant: the decision rests on the occurrence count alone.
replacementAllowedByOcc(t, match) ==
    options.dedupe.minOcc = 0 \/ match.occTotal >= options.dedupe.minOcc

replacementAllowed(t, match) ==
    /\ (options.dedupe.minOcc = 0 \/ match.occTotal >= options.dedupe.minOcc)
    /\ Len(match.str) >= autoMinLength(t)

\* The callback of processFiles (lines 224-226): the file object is the one
\* created or read at the start of the step, still held by the resident page
\* of the file collection, which nothing has touched since.  r is what
\* doReplace has returned.
replacedInFile(t, fileKey_, r) ==
    [t |-> [t EXCEPT !.files.data[fileKey_] = setField(r.file, "frags", r.frags)],
     match |-> r.match]

replaceInFile(t, match, fileKey_) ==
    replacedInFile(t, fileKey_,
        doReplace(t.files.data[fileKey_].frags, match, t.files.data[fileKey_]))

\* The callback of processNewMatches (lines 259-266): every file of
\* match.occ is read, rewritten and updated, in the order of the keys.
\* read is what batchRead has returned for the first of the keys, and r
\* what doReplace has returned for that file.
RECURSIVE replaceInOccFiles(_, _, _)
replacedInOccFile(t, b, r, keys) ==
    replaceInOccFiles(
        [t EXCEPT !.files =
            batchUpdate([b EXCEPT !.data[Head(keys)] = setField(r.file, "frags", r.frags)],
                        Head(keys), r.file)],
        r.match, Tail(keys))

replaceInOccFile(t, read, match, keys) ==
    IF read.b.enoent THEN [t |-> [t EXCEPT !.files = read.b], match |-> match]
    ELSE replacedInOccFile(t, read.b,
             doReplace(read.b.data[Head(keys)].frags, match, read.b.data[Head(keys)]),
             keys)

replaceInOccFiles(t, match, keys) ==
    IF keys = <<>> \/ thrown(t) THEN [t |-> t, match |-> match]
    ELSE replaceInOccFile(t, batchRead(t.files, Head(keys), ""), match, keys)

\* The call replaceCallback(): the function passed by processFiles for the
\* file of the step, or the one passed by processNewMatches.
call(replaceCallback, t, match) ==
    IF replaceCallback.of = "processFiles"
    THEN replaceInFile(t, match, replaceCallback.fileKey)
    ELSE replaceInOccFiles(t, match, sortedKeys(DOMAIN match.occ))

\* Faulty variant: the current identifier is not advanced when it has been
\* spent.
matchReplacedKeepVarName(done, matchKey, varTaken, repsOld) ==
    IF done.match.reps # 0
    THEN LET spent == [done.t EXCEPT
                          !.issued = IF varTaken
                                     THEN Append(@, <<matchKey, done.match.var>>)
                                     ELSE @,
                          !.matches.data[matchKey] = done.match]
         IN  IF done.match.reps # repsOld
             THEN [spent EXCEPT !.matches = batchUpdate(@, matchKey, done.match)]
             ELSE spent
    ELSE [done.t EXCEPT !.matches.data[matchKey] = setField(done.match, "var", NULL)]

\* Faulty variant: the identifier is released when the call has made no
\* replacement, whatever the counter was before.
matchReplacedRelease(done, matchKey, varTaken, repsOld) ==
    IF done.match.reps # repsOld
    THEN LET spent == [done.t EXCEPT
                          !.varName = IF varTaken THEN nextVarName(@) ELSE @,
                          !.issued = IF varTaken
                                     THEN Append(@, <<matchKey, done.match.var>>)
                                     ELSE @,
                          !.matches.data[matchKey] = done.match]
         IN  [spent EXCEPT !.matches = batchUpdate(@, matchKey, done.match)]
    ELSE [done.t EXCEPT !.matches.data[matchKey] = setField(done.match, "var", NULL)]

\* matchReplace after replaceCallback(), which has returned in done the
\* object and the match as it has changed them.  The match object is the
\* one held by the resident page of the match collection, so what is
\* assigned to it is assigned to matches.data[matchKey]; the callback leaves
\* the match collection alone.
matchReplaced(done, matchKey, varTaken, repsOld) ==
    IF done.match.reps # 0
    THEN LET spent == [done.t EXCEPT
                          !.varName = IF varTaken THEN nextVarName(@) ELSE @,
                          !.issued = IF varTaken
                                     THEN Append(@, <<matchKey, done.match.var>>)
                                     ELSE @,
                          !.matches.data[matchKey] = done.match]
         IN  IF done.match.reps # repsOld
             THEN [spent EXCEPT !.matches = batchUpdate(@, matchKey, done.match)]
             ELSE spent
    ELSE [done.t EXCEPT !.matches.data[matchKey] = setField(done.match, "var", NULL)]

\* matchReplace(match, matchKey, replaceCallback).
matchReplace(t, matchKey, replaceCallback) ==
    LET match == t.matches.data[matchKey]
    IN  IF ~isAllowed(match) THEN t
        ELSE matchReplaced(
                 call(replaceCallback, t,
                      IF hasVar(match) THEN match ELSE setField(match, "var", t.varName)),
                 matchKey, ~hasVar(match), match.reps)

\* The judgement of processNewMatches on a match whose occTotal is set.
judge(at, counted) ==
    setField(setField(counted, "allowed", replacementAllowed(at, counted)),
             "reps", IF "reps" \in DOMAIN counted THEN counted.reps ELSE 0)

\* The match as judged is the object of the resident page; the judgement is
\* added to the history of the step.
judgedAs(at, key, counted, marked) ==
    [at EXCEPT !.matches.data[key] = marked,
               !.judged = Append(@, [key |-> key,
                                     str |-> marked.str,
                                     occTotal |-> marked.occTotal,
                                     known |-> "allowed" \in DOMAIN counted,
                                     was |-> isAllowed(counted),
                                     allowed |-> marked.allowed,
                                     varName |-> at.varName])]

\* The loop of processNewMatches over new_matches[m], m being 0-based; read
\* is what batchRead has returned for new_matches[m].
RECURSIVE processNewMatchesLoop(_, _, _)
processNewMatchCounted(at, counted, list, m) ==
    processNewMatchesLoop(
        matchReplace(judgedAs(at, list[m + 1], counted, judge(at, counted)),
                     list[m + 1], [of |-> "processNewMatches"]),
        list, m + 1)

processNewMatchRead(t, read, list, m) ==
    IF read.b.enoent THEN [t EXCEPT !.matches = read.b]
    ELSE processNewMatchCounted([t EXCEPT !.matches = read.b],
                                setOccTotal(read.b.data[list[m + 1]]), list, m)

processNewMatchesLoop(t, list, m) ==
    IF m >= Len(list) \/ thrown(t) THEN t
    ELSE processNewMatchRead(t, batchRead(t.matches, list[m + 1], ""), list, m)

\* Faulty variant: every record of the collection is judged, not only the
\* matches the step has found.
processNewMatchesAll(t, list) ==
    processNewMatchesLoop(t, sortedKeys(DOMAIN records(t.matches)), 0)

processNewMatches(t, list) == processNewMatchesLoop(t, list, 0)

\* The loop of findDuplicates over fileKey2, from fileKey down to 0; a is
\* the fragment array of the file of the step, read before any page of the
\* file collection is exchanged.  at is the object when file2 has been
\* read, done when fragmentMatches has returned.
RECURSIVE findDuplicatesLoop(_, _, _, _, _, _)
findDuplicatesCompared(done, a, fileKey_, fileKey2, minLen, compared) ==
    IF thrown(done) THEN done
    ELSE IF /\ options.dedupe.maxFileCompare # 0
            /\ compared + 1 > options.dedupe.maxFileCompare
    THEN done
    ELSE findDuplicatesLoop(done, a, fileKey_, fileKey2 - 1, minLen, compared + 1)

findDuplicatesIn(at, a, fileKey_, fileKey2, minLen, compared) ==
    IF thrown(at) THEN at
    ELSE IF isSet(at.files.data[fileKey2], "skip")
    THEN findDuplicatesLoop(at, a, fileKey_, fileKey2 - 1, minLen, compared)
    ELSE findDuplicatesCompared(
             fragmentMatches(at, a,
                 IF fileKey_ = fileKey2 THEN a ELSE at.files.data[fileKey2].frags,
                 fileKey_, fileKey2, minLen),
             a, fileKey_, fileKey2, minLen, compared)

findDuplicatesLoop(t, a, fileKey_, fileKey2, minLen, compared) ==
    IF fileKey2 < 0 THEN t
    ELSE findDuplicatesIn(
             [t EXCEPT !.files = IF fileKey_ = fileKey2 THEN @
                                 ELSE batchRead(@, fileKey2, "").b],
             a, fileKey_, fileKey2, minLen, compared)

\* findDuplicates(file, fileKey): t.new_matches is the array it returns.
findDuplicates(t, fileKey_) ==
    LET a      == t.files.data[fileKey_].frags
        minLen == IF options.dedupe.minLength # 0 THEN options.dedupe.minLength
                  ELSE autoMinLength(t)
    IN  findDuplicatesLoop([t EXCEPT !.new_matches = <<>>, !.reported = <<>>,
                                     !.judged = <<>>],
                           a, fileKey_, fileKey_, minLen, 0)

\* The loop of processFiles over batchIterator('matches') (lines 219-228).
\* The generator writes the resident page when there are several pages, then
\* loads each page in turn and yields its records by ascending key; a page is
\* loaded when the records of the page before it have all been yielded and
\* consumed, and batchLoad does not write the page it replaces.
RECURSIVE applyToPage(_, _, _)
applyToPage(t, keys, fileKey_) ==
    IF keys = <<>> \/ thrown(t) THEN t
    ELSE applyToPage(
             matchReplace(t, Head(keys), [of |-> "processFiles", fileKey |-> fileKey_]),
             Tail(keys), fileKey_)

RECURSIVE applyExistingLoop(_, _, _)
applyExistingLoop(t, page, fileKey_) ==
    IF page >= t.matches.batches \/ t.matches.enoent THEN t
    ELSE LET loaded == [t EXCEPT !.matches = batchLoad(@, page)]
         IN  IF loaded.matches.enoent THEN loaded
             ELSE applyExistingLoop(
                      applyToPage(loaded, sortedKeys(DOMAIN loaded.matches.data), fileKey_),
                      page + 1, fileKey_)

applyExisting(t, fileKey_) ==
    applyExistingLoop(
        [t EXCEPT !.matches = IF @.batches > 1 THEN batchSaveCurrent(@) ELSE @],
        0, fileKey_)

(***************************************************************************)
(* Pass orchestrator: one iteration of the inner loop of processFiles.     *)
(***************************************************************************)
\* str.indexOf(part) > -1
contains(str, part) ==
    \E i \in 0..Len(str) : substring(str, i, i + Len(part)) = part

createFileTrack(t, fileKey_) ==
    LET in    == inPaths[fileKey_ + 1]
        isDir == in.type = "dir"
        isBin == in.type = "bin"
        file  == [skip |-> in.justCopy \/ isDir \/ isBin, type |-> in.type]
    IN  [t EXCEPT !.files = batchInsert(@, fileKey_, file).b]

determineTextFileSkip(t, fileKey_, str) ==
    IF   /\ ~isSet(t.files.data[fileKey_], "skip")
         /\ \E marker \in options.skipContaining : contains(str, marker)
    THEN LET flagged == [t.files EXCEPT !.data[fileKey_] = setField(@, "skip", TRUE)]
         IN  [t EXCEPT !.files = batchUpdate(flagged, fileKey_, flagged.data[fileKey_])]
    ELSE t

\* minify(str): html-minifier with the options of createOptions, as it acts
\* on texts made of tags and whitespace: with collapseWhitespace the blanks
\* and line breaks between the tags are dropped.
Whitespace == {" ", "\n", "\t", "\r"}

RECURSIVE minify(_)
minify(str) ==
    IF str = <<>> THEN <<>>
    ELSE (IF Head(str) \in Whitespace THEN <<>> ELSE <<Head(str)>>) \o minify(Tail(str))

\* Faulty variant: the text is minified whatever options.minify is.
manipulationsMinifyAlways(str) == minify(str)

\* manipulations(fileKey, str) without the searchReplace, disable and
\* slugify options: the text is minified when options.minify is set.
manipulations(str) == IF options.minify THEN minify(str) ELSE str

\* The value false of options.dedupe.
Disabled == [disabled |-> TRUE]

\* The body of the inner loop of processFiles for (pass_, fileKey_), stage
\* by stage: opened when the file object has been created or read, sniffed
\* when its text has been looked at, found when findDuplicates has
\* returned, changed when the new matches have been processed.
processChanged(changed, fileKey_) ==
    IF thrown(changed) THEN changed
    ELSE [changed EXCEPT !.files = batchUpdate(@, fileKey_, @.data[fileKey_])]

processFound(found, fileKey_) ==
    IF thrown(found) THEN found
    ELSE processChanged(processNewMatches(found, found.new_matches), fileKey_)

\* Faulty variant: the test of file.skip (line 207) is left out.
processSniffedAlways(sniffed, pass_, fileKey_, str) ==
    IF thrown(sniffed) THEN sniffed
    ELSE IF options.dedupe = Disabled
    THEN processChanged(
             IF pass_ = 0
             THEN [sniffed EXCEPT !.files.data[fileKey_] = setField(@, "saved", TRUE)]
             ELSE sniffed,
             fileKey_)
    ELSE processFound(
             findDuplicates(
                 applyExisting(
                     IF pass_ = 0
                     THEN [sniffed EXCEPT !.files.data[fileKey_] =
                              setField(@, "frags",
                                  createFragments(addSlashes(manipulations(str))))]
                     ELSE sniffed,
                     fileKey_),
                 fileKey_),
             fileKey_)

\* With options.dedupe = false the text is written at once in pass 0 (the
\* step records the write) and the file is marked saved.
processSniffed(sniffed, pass_, fileKey_, str) ==
    IF thrown(sniffed) \/ isSet(sniffed.files.data[fileKey_], "skip") THEN sniffed
    ELSE IF options.dedupe = Disabled
    THEN processChanged(
             IF pass_ = 0
             THEN [sniffed EXCEPT !.files.data[fileKey_] = setField(@, "saved", TRUE)]
             ELSE sniffed,
             fileKey_)
    ELSE processFound(
             findDuplicates(
                 applyExisting(
                     IF pass_ = 0
                     THEN [sniffed EXCEPT !.files.data[fileKey_] =
                              setField(@, "frags",
                                  createFragments(addSlashes(manipulations(str))))]
                     ELSE sniffed,
                     fileKey_),
                 fileKey_),
             fileKey_)

processOpened(opened, pass_, fileKey_, str) ==
    IF thrown(opened) \/ opened.files.data[fileKey_].type # "text" THEN opened
    ELSE processSniffed(
             IF pass_ = 0 THEN determineTextFileSkip(opened, fileKey_, str) ELSE opened,
             pass_, fileKey_, str)

processFile(t, pass_, fileKey_) ==
    processOpened(
        IF pass_ = 0 THEN createFileTrack(t, fileKey_)
        ELSE [t EXCEPT !.files = batchRead(@, fileKey_, "").b],
        pass_, fileKey_, inPaths[fileKey_ + 1].content)

(***************************************************************************)
(* The run: webArchiver from the creation of the two collections to the    *)
(* call of batchPurgeAll: one step for each (pass, file) of processFiles,  *)
(* one for createOutFiles and one for createVarFile.  ret is the log of    *)
(* the iterations of processFiles that have been run.                      *)
(***************************************************************************)
this ==
    [files |-> batch.files, matches |-> batch.matches, varName |-> varName,
     new_matches |-> new_matches, reported |-> reported, judged |-> judged,
     issued |-> issued]

\* Faulty variant: processFiles goes on to one more pass as long as the
\* last file of a pass has given new matches.
ProcessedFileUntilNoMatch(t) ==
    IF thrown(t)
    THEN /\ pc' = "ENOENT"
         /\ UNCHANGED <<batch, varName, new_matches, reported, judged,
                        issued, escaped, written, pass, fileKey>>
    ELSE /\ batch' = [files |-> t.files, matches |-> t.matches]
         /\ varName' = t.varName
         /\ new_matches' = t.new_matches
         /\ reported' = t.reported
         /\ judged' = t.judged
         /\ issued' = t.issued
         /\ escaped' = IF /\ pass = 0
                          /\ t.files.data[fileKey].type = "text"
                          /\ ~isSet(t.files.data[fileKey], "skip")
                          /\ options.dedupe # Disabled
                       THEN (fileKey :> addSlashes(manipulations(
                                            inPaths[fileKey + 1].content)))
                            @@ escaped
                       ELSE escaped
         /\ written' = IF pass = 0 /\ isSet(t.files.data[fileKey], "saved")
                       THEN [written EXCEPT !.files =
                                (fileKey :> [type |-> "file",
                                             content |-> manipulations(
                                                 inPaths[fileKey + 1].content)]) @@ @]
                       ELSE written
         /\ IF fileKey + 1 < Len(inPaths)
            THEN /\ fileKey' = fileKey + 1
                 /\ pass' = pass
                 /\ pc' = pc
            ELSE /\ fileKey' = 0
                 /\ pass' = pass + 1
                 /\ pc' = IF pass + 1 < options.passes \/ t.new_matches # <<>> THEN pc
                          ELSE "createOutFiles"

\* The step has ended with the object as t: by an exception of the page
\* read, which ends the run, or with the next file, the next pass, or the
\* end of processFiles.
ProcessedFile(t) ==
    IF thrown(t)
    THEN /\ pc' = "ENOENT"
         /\ UNCHANGED <<batch, varName, new_matches, reported, judged,
                        issued, escaped, written, pass, fileKey>>
    ELSE /\ batch' = [files |-> t.files, matches |-> t.matches]
         /\ varName' = t.varName
         /\ new_matches' = t.new_matches
         /\ reported' = t.reported
         /\ judged' = t.judged
         /\ issued' = t.issued
         /\ escaped' = IF /\ pass = 0
                          /\ t.files.data[fileKey].type = "text"
                          /\ ~isSet(t.files.data[fileKey], "skip")
                          /\ options.dedupe # Disabled
                       THEN (fileKey :> addSlashes(manipulations(
                                            inPaths[fileKey + 1].content)))
                            @@ escaped
                       ELSE escaped
         /\ written' = IF pass = 0 /\ isSet(t.files.data[fileKey], "saved")
                       THEN [written EXCEPT !.files =
                                (fileKey :> [type |-> "file",
                                             content |-> manipulations(
                                                 inPaths[fileKey + 1].content)]) @@ @]
                       ELSE written
         /\ IF fileKey + 1 < Len(inPaths)
            THEN /\ fileKey' = fileKey + 1
                 /\ pass' = pass
                 /\ pc' = pc
            ELSE /\ fileKey' = 0
                 /\ pass' = pass + 1
                 /\ pc' = IF pass + 1 < options.passes THEN pc
                          ELSE "createOutFiles"

ProcessFile ==
    /\ pc = "processFiles"
    /\ pass < options.passes
    /\ ProcessedFile(processFile(this, pass, fileKey))
    /\ ret' = Append(ret, [pass |-> pass, fileKey |-> fileKey])
    /\ UNCHANGED <<options, inPaths, arg>>

(***************************************************************************)
(* Output: createOutFiles and createVarFile.  The input files lie in one   *)
(* directory, so that no output path holds a '/' and prepend adds no '../'.*)
(***************************************************************************)
\* str.replace(new RegExp(escapeRegExp(find), 'g'), replace): the matches
\* are taken from left to right and do not overlap.
\* str.indexOf(find), as a set that is empty when find does not occur.
indexOf(str, find) ==
    LET hits == {i \in 0..(Len(str) - Len(find)) : SubSeq(str, i + 1, i + Len(find)) = find}
    IN  {i \in hits : \A j \in hits : i <= j}

RECURSIVE replaceAll(_, _, _)
RECURSIVE replaceAllAt(_, _, _, _)
replaceAllAt(str, find, replace, at) ==
    IF at = {} THEN str
    ELSE LET i == CHOOSE i \in at : TRUE
         IN  SubSeq(str, 1, i) \o replace
             \o replaceAll(SubSeq(str, i + Len(find) + 1, Len(str)), find, replace)

replaceAll(str, find, replace) == replaceAllAt(str, find, replace, indexOf(str, find))

fixCodes(str) ==
    replaceAll(replaceAll(str, <<".", "'", "'">>, <<>>), <<"'", "'", ".">>, <<>>)

\* options.vFile, the default of createOptions.
vFileName == <<"v", ".", "p", "h", "p">>

\* prepend(vFile, 0)
prepend(vFile) ==
    <<"<", "?", "p", "h", "p", " ", "i", "n", "c", "l", "u", "d", "e", " ", "'">> \o vFile \o <<"'", ";", "e", "c", "h", "o", " ", "'">>

append == <<"'", ";">>

\* What createOutFiles writes for a file: at most one entry of the output
\* directory, under the key of the file.
outFile(file, in) ==
    IF isSet(file, "deduped")
    THEN [type |-> "file",
          content |-> fixCodes(prepend(vFileName) \o join(file.frags) \o append)]
    ELSE IF file.type = "dir" THEN [type |-> "dir", content |-> <<>>]
    ELSE [type |-> "file", content |-> in.content]

writesOutFile(file) ==
    \/ isSet(file, "deduped")
    \/ file.type \in {"dir", "bin"}
    \/ file.type = "text" /\ ~isSet(file, "saved")

\* The loop of createOutFiles from fileKey_ on; read is what batchRead has
\* returned for the file.  An undefined file makes file.path a TypeError.
RECURSIVE createOutFilesLoop(_, _, _)
RECURSIVE createOutFilesRead(_, _, _)
createOutFilesRead(read, out, fileKey_) ==
    IF read.b.enoent THEN [files |-> read.b, out |-> out, error |-> "ENOENT"]
    ELSE IF ~read.found THEN [files |-> read.b, out |-> out, error |-> "TypeError"]
    ELSE createOutFilesLoop(
             read.b,
             IF writesOutFile(read.b.data[fileKey_])
             THEN (fileKey_ :> outFile(read.b.data[fileKey_], inPaths[fileKey_ + 1])) @@ out
             ELSE out,
             fileKey_ + 1)

createOutFilesLoop(files, out, fileKey_) ==
    IF fileKey_ >= Len(inPaths) THEN [files |-> files, out |-> out, error |-> ""]
    ELSE createOutFilesRead(batchRead(files, fileKey_, ""), out, fileKey_)

createOutFiles(files, out) == createOutFilesLoop(files, out, 0)

\* '$' + match.var for a property that may be absent.
varOf(match) ==
    IF "var" \in DOMAIN match THEN varCode(match.var)
    ELSE <<"$", "u", "n", "d", "e", "f", "i", "n", "e", "d">>

\* vFile += varCode(match.var) + '=\'' + match.str + '\';'
varFileLine(match) ==
    varOf(match) \o <<"=", "'">> \o match.str \o <<"'", ";">>

\* Faulty variant: the test of match.reps (line 351) is left out.
RECURSIVE createVarFilePageAll(_, _, _)
createVarFilePageAll(data, keys, r) ==
    IF keys = <<>> \/ r.error # "" THEN r
    ELSE createVarFilePageAll(data, Tail(keys),
             IF data[Head(keys)] = UNDEFINED THEN [r EXCEPT !.error = "TypeError"]
             ELSE [r EXCEPT !.vFile = @ \o varFileLine(data[Head(keys)])])

\* The records of one page as batchIterator yields them, by ascending key.
\* An undefined record makes match.reps a TypeError.
RECURSIVE createVarFilePage(_, _, _)
createVarFilePage(data, keys, r) ==
    IF keys = <<>> \/ r.error # "" THEN r
    ELSE createVarFilePage(data, Tail(keys),
             IF data[Head(keys)] = UNDEFINED THEN [r EXCEPT !.error = "TypeError"]
             ELSE IF "reps" \in DOMAIN data[Head(keys)] /\ data[Head(keys)].reps # 0
             THEN [r EXCEPT !.vFile = @ \o varFileLine(data[Head(keys)])]
             ELSE r)

RECURSIVE createVarFileLoop(_, _, _)
RECURSIVE createVarFileLoaded(_, _, _)
createVarFileLoaded(loaded, page, r) ==
    IF loaded.enoent THEN [matches |-> loaded, vFile |-> r.vFile, error |-> "ENOENT"]
    ELSE createVarFileLoop(loaded, page + 1,
             createVarFilePage(loaded.data, sortedKeys(DOMAIN loaded.data), r))

createVarFileLoop(matches, page, r) ==
    IF page >= matches.batches \/ r.error # ""
    THEN [matches |-> matches, vFile |-> r.vFile, error |-> r.error]
    ELSE createVarFileLoaded(batchLoad(matches, page), page, r)

\* var vFile = '<?php '
phpOpen == <<"<", "?", "p", "h", "p", " ">>

\* createVarFile up to the write: the text of the file as the loop over
\* batchIterator('matches') leaves it.
createVarFile(matches) ==
    createVarFileLoop(IF matches.batches > 1 THEN batchSaveCurrent(matches) ELSE matches,
                      0, [vFile |-> phpOpen, error |-> ""])

\* createOutFiles has returned r, or an exception has left it: the files
\* written before the exception stay written.
CreatedOutFiles(r) ==
    /\ written' = [written EXCEPT !.files = r.out]
    /\ IF r.error # ""
       THEN pc' = r.error /\ UNCHANGED batch
       ELSE pc' = "createVarFile" /\ batch' = [batch EXCEPT !.files = r.files]

CreateOutFiles ==
    /\ pc = "createOutFiles"
    /\ CreatedOutFiles(createOutFiles(batch.files, written.files))
    /\ UNCHANGED <<options, inPaths, varName, pass, fileKey, escaped, new_matches,
                   reported, judged, issued, arg, ret>>

\* The loop of createVarFile has returned r; the file is written unless an
\* exception has left the loop.
CreatedVarFile(r) ==
    IF r.error # ""
    THEN pc' = r.error /\ UNCHANGED <<batch, written>>
    ELSE /\ pc' = "batchPurgeAll"
         /\ batch' = [batch EXCEPT !.matches = r.matches]
         /\ written' = [written EXCEPT !.vFile = fixCodes(r.vFile)]

CreateVarFile ==
    /\ pc = "createVarFile"
    /\ CreatedVarFile(createVarFile(batch.matches))
    /\ UNCHANGED <<options, inPaths, varName, pass, fileKey, escaped, new_matches,
                   reported, judged, issued, arg, ret>>

\* The default boundary sets of createOptions; \s is written as the
\* whitespace characters.
DefaultStartsWith == {"<", "{", "(", "["}
DefaultEndsWith   == {">", "}", ")", "]", "\n", " ", "\t", "\r"}

\* The words the input texts of a run are made of: a tag that holds a quote,
\* a short tag, and the marker of options.skipContaining.
Words ==
    { <<"<", "a", "'", "b", ">">>,
      <<"<", "z", ">">>,
      <<"<", "?", ">">> }

\* The texts of exactly n words.
RECURSIVE TextsOf(_)
TextsOf(n) ==
    IF n = 0 THEN {<<>>} ELSE {w \o text : w \in Words, text \in TextsOf(n - 1)}

\* The files createFileTrack flags at once: a text file of the justCopy
\* list, a binary file and a directory.
CopiedFiles ==
    {[type |-> "text", justCopy |-> TRUE, content |-> w] : w \in Words}
    \cup {[type |-> "bin", justCopy |-> FALSE, content |-> w] : w \in Words}
    \cup {[type |-> "dir", justCopy |-> FALSE, content |-> <<>>]}

\* The lists of input files that hold at most n words together: non-empty
\* text files, and the files of CopiedFiles, each counted as three words.
RECURSIVE FileLists(_)
FileLists(n) ==
    {<<>>}
    \cup UNION { { <<[type |-> "text", justCopy |-> FALSE, content |-> text]>> \o rest :
                     text \in TextsOf(k), rest \in FileLists(n - k) } : k \in 1..n }
    \cup (IF n < 3 THEN {}
          ELSE {<<file>> \o rest : file \in CopiedFiles, rest \in FileLists(n - 3)})

\* The options of a run: the defaults of createOptions but for the number
\* of passes, the page capacity and the thresholds, which are drawn here.
RunOption(p, bs, ml, mo) ==
    [passes |-> p, batchSize |-> bs, skipContaining |-> {<<"<", "?">>},
     minify |-> FALSE,
     dedupe |-> [minLength |-> ml, minSaving |-> 0, minOcc |-> mo,
                 startsWith |-> DefaultStartsWith, endsWith |-> DefaultEndsWith,
                 maxFileCompare |-> 1000]]

\* One page or one record per page; the automatic floor or a fixed minimum
\* length below it; and, with one page, a minimum occurrence count.
RunOptions ==
    {RunOption(p, bs, ml, 0) : p \in {1, 2}, bs \in {1, 500}, ml \in {0, 3}}
    \cup {RunOption(p, 500, ml, 3) : p \in {1, 2}, ml \in {0, 3}}

\* The state webArchiver has built when it calls processFiles (lines 58-62),
\* with the histories empty.
Constructed ==
    /\ batch = [files |-> batchCreate, matches |-> batchCreate]
    /\ varName = <<"a">>
    /\ pass = 0
    /\ fileKey = 0
    /\ escaped = <<>>
    /\ new_matches = <<>>
    /\ reported = <<>>
    /\ judged = <<>>
    /\ issued = <<>>
    /\ written = [files |-> <<>>, vFile |-> <<>>]

Init ==
    /\ pc = "processFiles"
    /\ options \in RunOptions
    /\ inPaths \in FileLists(MaxWords) \ {<<>>}
    /\ Constructed
    /\ arg = <<>>
    /\ ret = <<>>

Next == ProcessFile \/ CreateOutFiles \/ CreateVarFile

Spec == Init /\ [][Next]_vars

(***************************************************************************)
(* Fragmenter on its own: createFragments called with any string over      *)
(* FragChars and any two disjoint boundary sets.                           *)
(***************************************************************************)
FragChars == {"<", ">", "a"}

BoundarySets ==
    {[startsWith |-> S, endsWith |-> E] :
        S \in SUBSET FragChars, E \in SUBSET FragChars}

DisjointBoundarySets ==
    {d \in BoundarySets : d.startsWith \cap d.endsWith = {}}

InitFragments ==
    /\ pc = "createFragments"
    /\ options \in {[dedupe |-> d] : d \in DisjointBoundarySets}
    /\ arg \in {[str |-> str] : str \in StringsUpTo(FragChars, MaxStrLen)}
    /\ ret = <<>>
    /\ inPaths = <<>>
    /\ Constructed

CallCreateFragments ==
    /\ pc = "createFragments"
    /\ ret' = createFragments(arg.str)
    /\ pc' = "returned"
    /\ UNCHANGED <<options, inPaths, batch, varName, pass, fileKey, escaped, written,
                   new_matches, reported, judged, issued, arg>>

NextFragments == CallCreateFragments

SpecFragments == InitFragments /\ [][NextFragments]_vars

\* C2: the fragments createFragments returns, concatenated in order, are
\* exactly the input string, for any string and disjoint boundary sets.
FragmentsConcatenateToInput ==
    pc = "returned" => join(ret) = arg.str

\* A call that cut its input into three fragments or more.
FragmentsConcatenateToInputWitness ==
    /\ pc = "returned"
    /\ Len(ret) >= 3
    /\ join(ret) = arg.str

\* C3: every fragment is non-empty, holds a leading-set character only at
\* its first position and a trailing-set character only at its last, and its
\* run is maximal: a fragment that does not end with a trailing-set
\* character is the last one or is followed by a fragment that starts with a
\* leading-set character.
FragmentsWellShaped ==
    pc = "returned" =>
        \A n \in 1..Len(ret) :
            /\ ret[n] # <<>>
            /\ \A p \in 1..Len(ret[n]) :
                  /\ ret[n][p] \in options.dedupe.startsWith => p = 1
                  /\ ret[n][p] \in options.dedupe.endsWith => p = Len(ret[n])
            /\ ret[n][Len(ret[n])] \notin options.dedupe.endsWith =>
                  \/ n = Len(ret)
                  \/ ret[n + 1][1] \in options.dedupe.startsWith

\* A fragment that opens with a leading character, runs on, closes without
\* a trailing character and is followed by another fragment.
FragmentsWellShapedWitness ==
    /\ pc = "returned"
    /\ \E n \in 1..Len(ret) :
          /\ n < Len(ret)
          /\ Len(ret[n]) >= 2
          /\ ret[n][1] \in options.dedupe.startsWith
          /\ ret[n][Len(ret[n])] \notin options.dedupe.endsWith
          /\ ret[n + 1][1] \in options.dedupe.startsWith

(***************************************************************************)
(* Replacement applier on its own: doReplace called with a fragment array, *)
(* a match that holds identifier v, and the file object.  The array may    *)
(* already hold the token of the match, written by an earlier call.        *)
(***************************************************************************)
ReplaceFragments == {<<"a">>, <<"b">>, <<"a", "b">>, shortCode(<<"v">>)}

ReplaceStrings ==
    {join(q) : q \in UNION {[1..n -> ReplaceFragments \ {shortCode(<<"v">>)}] :
                               n \in 1..2}}

InitReplace ==
    /\ pc = "doReplace"
    /\ options = [dedupe |-> [startsWith |-> DefaultStartsWith,
                              endsWith |-> DefaultEndsWith]]
    /\ arg \in {[frags |-> frags,
                 match |-> [str |-> str, var |-> <<"v">>, reps |-> reps],
                 file |-> [skip |-> FALSE, type |-> "text"]] :
                    frags \in UNION {[1..n -> ReplaceFragments] : n \in 1..MaxFrags},
                    str \in ReplaceStrings,
                    reps \in {0, 1}}
    /\ ret = <<>>
    /\ inPaths = <<>>
    /\ Constructed

CallDoReplace ==
    /\ pc = "doReplace"
    /\ ret' = doReplace(arg.frags, arg.match, arg.file)
    /\ pc' = "returned"
    /\ UNCHANGED <<options, inPaths, batch, varName, pass, fileKey, escaped, written,
                   new_matches, reported, judged, issued, arg>>

NextReplace == CallDoReplace

SpecReplace == InitReplace /\ [][NextReplace]_vars

\* What the replacement of runs is to produce, read from left to right: at
\* the first fragment of a run of fragments that concatenate to str the run
\* becomes the token and the reading goes on behind the run; any other
\* fragment is kept.
RECURSIVE replaceRuns(_, _, _)
replaceRuns(frags, str, token) ==
    IF frags = <<>> THEN <<>>
    ELSE LET runs == {n \in 1..Len(frags) : join(SubSeq(frags, 1, n)) = str}
         IN  IF runs # {}
             THEN LET n == CHOOSE n \in runs : TRUE
                  IN  <<token>> \o replaceRuns(SubSeq(frags, n + 1, Len(frags)), str, token)
             ELSE <<Head(frags)>> \o replaceRuns(Tail(frags), str, token)

\* Every fragment that is the token, substituted by the match string.
expand(frags, str, token) ==
    [n \in 1..Len(frags) |-> IF frags[n] = token THEN str ELSE frags[n]]

\* The tokens among the fragments.
tokensIn(frags, token) == Cardinality({n \in 1..Len(frags) : frags[n] = token})

\* C4: doReplace turns each run of consecutive fragments that concatenate to
\* the match string, found from left to right without overlap, into one
\* token of the match's identifier and keeps every other fragment in place;
\* the match string put back for the token gives the concatenation of the
\* input (of the input with its own earlier tokens expanded, when it holds
\* some), and the counter grows by the number of runs replaced.
RunsReplacedByToken ==
    pc = "returned" =>
        LET token == shortCode(arg.match.var)
            str   == arg.match.str
        IN  /\ ret.frags = replaceRuns(arg.frags, str, token)
            /\ join(expand(ret.frags, str, token)) = join(expand(arg.frags, str, token))
            /\ tokensIn(arg.frags, token) = 0 =>
                   join(expand(ret.frags, str, token)) = join(arg.frags)
            /\ ret.match.reps = arg.match.reps
                                  + tokensIn(ret.frags, token) - tokensIn(arg.frags, token)

\* A call that replaced two runs, one of them of two fragments, and kept a
\* fragment between them.
RunsReplacedByTokenWitness ==
    /\ pc = "returned"
    /\ Len(arg.frags) = 4
    /\ tokensIn(arg.frags, shortCode(arg.match.var)) = 0
    /\ Len(ret.frags) = 3
    /\ ret.match.reps = arg.match.reps + 2
    /\ ret.frags[2] # shortCode(arg.match.var)

(***************************************************************************)
(* Match finder on its own, driven as the tests drive it (test.js lines    *)
(* 99-117): every sequence of arg.input is compared with itself and with   *)
(* the sequences before it, one call of fragmentMatches for each pair, a   *)
(* new array being passed for new_matches each time.                       *)
(***************************************************************************)
MatchFragments == {<<"<", "x", ">">>, <<"y">>}

\* The value of min in the tests.
TestMin == 3

MatchInputs ==
    LET seqs == UNION {[1..n -> MatchFragments] : n \in 1..MaxSeqLen}
    IN  UNION {[1..n -> seqs] : n \in 1..2}

InitMatch ==
    /\ pc = "fragmentMatches"
    /\ options \in {[batchSize |-> bs,
                     dedupe |-> [minOcc |-> 0, minSaving |-> 1,
                                 startsWith |-> DefaultStartsWith,
                                 endsWith |-> DefaultEndsWith]] : bs \in {1, 500}}
    /\ arg \in {[input |-> input, min |-> TestMin, i |-> 0, j |-> 0] :
                   input \in MatchInputs}
    /\ ret = <<>>
    /\ inPaths = <<>>
    /\ Constructed

\* The call has returned with the object as t; the driver goes on with the
\* next pair of sequences.
CalledFragmentMatches(t, last) ==
    /\ batch' = [files |-> t.files, matches |-> t.matches]
    /\ new_matches' = t.new_matches
    /\ reported' = t.reported
    /\ arg' = [arg EXCEPT !.i = IF last THEN @ + 1 ELSE @,
                          !.j = IF last THEN 0 ELSE @ + 1]
    /\ pc' = IF thrown(t) THEN "ENOENT"
             ELSE IF last /\ arg.i + 1 >= Len(arg.input) THEN "returned"
             ELSE pc

CallFragmentMatches ==
    /\ pc = "fragmentMatches"
    /\ CalledFragmentMatches(
           fragmentMatches([this EXCEPT !.new_matches = <<>>, !.reported = <<>>],
                           arg.input[arg.i + 1], arg.input[arg.j + 1],
                           arg.i, arg.j, arg.min),
           arg.j = arg.i)
    /\ UNCHANGED <<options, inPaths, varName, pass, fileKey, escaped, written, judged,
                   issued, ret>>

NextMatch == CallFragmentMatches

SpecMatch == InitMatch /\ [][NextMatch]_vars

\* The run of n fragments that concatenates to str and starts at the
\* 0-based offset pos of frags, if there is one.
occursAt(frags, pos, str) ==
    \E n \in 1..(Len(frags) - pos) : join(SubSeq(frags, pos + 1, pos + n)) = str

\* C9: a sequence compared with itself never pairs a position with itself:
\* no reported pair of a self-comparison has equal offsets, the offsets a
\* record keeps for a file are different offsets at which its run occurs, a
\* record that knows only one file has two offsets or more under that one
\* file identifier, and no two records have the same string.
SelfComparisonPairsDistinctOffsets ==
    LET recs == records(batch.matches)
    IN  /\ \A n \in 1..Len(reported) :
              reported[n].a_name = reported[n].b_name =>
                  reported[n].a_pos # reported[n].b_pos
        /\ \A key \in DOMAIN recs : \A name \in DOMAIN recs[key].occ :
              LET offsets == recs[key].occ[name]
              IN  /\ \A m, n \in 1..Len(offsets) : m # n => offsets[m] # offsets[n]
                  /\ \A n \in 1..Len(offsets) :
                        occursAt(arg.input[name + 1], offsets[n], recs[key].str)
                  /\ DOMAIN recs[key].occ = {name} => Len(offsets) >= 2
        /\ \A k1, k2 \in DOMAIN recs : k1 # k2 => recs[k1].str # recs[k2].str

\* The case of the test: one sequence in which a run of two fragments
\* occurs at offsets 0 and 2 gives one record for it, with offsets [0, 2].
SelfComparisonPairsDistinctOffsetsWitness ==
    /\ pc = "returned"
    /\ Len(arg.input) = 1
    /\ \E key \in DOMAIN records(batch.matches) :
          /\ records(batch.matches)[key].occ = (0 :> <<0, 2>>)
          /\ Len(records(batch.matches)[key].str) > Len(arg.input[1][1])

\* C10: within one comparison, once a run is accepted no match reported
\* after it starts at a later fragment of that run: no suffix of an accepted
\* run, its last fragment alone included, is reported as a shorter match of
\* its own.  (The first fragment of the run is left out of the formula: a
\* run of one fragment has no suffix but itself.)
NoMatchStartsInsideAcceptedRun ==
    \A m, n \in 1..Len(reported) :
        m < n =>
            ~ (/\ reported[n].a_pos > reported[m].a_pos
               /\ reported[n].a_pos <= reported[m].a_pos + reported[m].k - 1)

\* C11: every string handed to addMatch for a pair (i, j) is the
\* concatenation of the k whole fragments a[i..i+k) = b[j..j+k), and k is
\* maximal: the run ends at the end of a sequence or in front of two
\* fragments that differ.
ReportedRunsWholeAndMaximal ==
    \A n \in 1..Len(reported) :
        LET r == reported[n]
            a == arg.input[r.a_name + 1]
            b == arg.input[r.b_name + 1]
        IN  /\ r.k >= 1
            /\ r.a_pos + r.k <= Len(a)
            /\ r.b_pos + r.k <= Len(b)
            /\ \A d \in 0..(r.k - 1) : a[r.a_pos + d + 1] = b[r.b_pos + d + 1]
            /\ r.str = join(SubSeq(a, r.a_pos + 1, r.a_pos + r.k))
            /\ r.str = join(SubSeq(b, r.b_pos + 1, r.b_pos + r.k))
            /\ \/ r.a_pos + r.k = Len(a)
               \/ r.b_pos + r.k = Len(b)
               \/ a[r.a_pos + r.k + 1] # b[r.b_pos + r.k + 1]

\* A run of two fragments is reported that stops in front of two fragments
\* that differ, both sequences going on.
ReportedRunsWholeAndMaximalWitness ==
    \E n \in 1..Len(reported) :
        LET r == reported[n]
            a == arg.input[r.a_name + 1]
            b == arg.input[r.b_name + 1]
        IN  /\ r.k >= 2
            /\ r.a_pos + r.k < Len(a)
            /\ r.b_pos + r.k < Len(b)
            /\ a[r.a_pos + r.k + 1] # b[r.b_pos + r.k + 1]
            /\ r.str = join(SubSeq(a, r.a_pos + 1, r.a_pos + r.k))

(***************************************************************************)
(* Properties of the run.                                                  *)
(***************************************************************************)
\* The matches that hold identifier v.
holders(recs, v) == {key \in DOMAIN recs : hasVar(recs[key]) /\ recs[key].var = v}

\* A reference token starts at the 1-based index p of str: quote, dot,
\* dollar, a name, dot, quote.
tokenStartsAt(str, p) ==
    /\ p + 2 <= Len(str)
    /\ str[p] = "'" /\ str[p + 1] = "." /\ str[p + 2] = "$"
    /\ \E e \in (p + 3)..(Len(str) - 1) : str[e] = "." /\ str[e + 1] = "'"

\* The index of the dot that closes the name of the token starting at p.
tokenNameEnd(str, p) ==
    CHOOSE e \in (p + 3)..(Len(str) - 1) :
        /\ str[e] = "."
        /\ \A d \in (p + 3)..(e - 1) : str[d] # "."

\* What stands for a token that no match, or more than one match, holds.
Unresolved == <<"undefined">>

\* str from index p on with every reference token substituted, recursively,
\* by the string of the match that holds its identifier.  A backslash and
\* the character behind it are copied: the quote of an escaped text is
\* never the start of a token.  fuel bounds the depth of the substitution.
RECURSIVE resolveFrom(_, _, _, _)
resolveFrom(str, p, recs, fuel) ==
    IF p > Len(str) THEN <<>>
    ELSE IF str[p] = "\\" /\ p < Len(str)
    THEN <<str[p], str[p + 1]>> \o resolveFrom(str, p + 2, recs, fuel)
    ELSE IF tokenStartsAt(str, p)
    THEN LET e  == tokenNameEnd(str, p)
             hs == holders(recs, SubSeq(str, p + 3, e - 1))
         IN  (IF Cardinality(hs) # 1 \/ fuel = 0 THEN Unresolved
              ELSE resolveFrom(recs[CHOOSE key \in hs : TRUE].str, 1, recs, fuel - 1))
             \o resolveFrom(str, e + 2, recs, fuel)
    ELSE <<str[p]>> \o resolveFrom(str, p + 1, recs, fuel)

resolve(str, recs) == resolveFrom(str, 1, recs, Cardinality(DOMAIN recs))

\* C1: after each step of every pass, every text file that was fragmented
\* gives back the escaped text of pass 0 when the reference tokens of its
\* fragments are substituted, recursively, by the strings of the matches
\* that hold their identifiers, and the result is concatenated.
RoundTrip ==
    \A key \in DOMAIN escaped :
        resolve(join(records(batch.files)[key].frags), records(batch.matches))
            = escaped[key]

\* C5: no identifier is issued twice and no match is issued two
\* identifiers, over the whole run; no two matches hold the same identifier.
IdentifiersIssuedOnce ==
    /\ \A m, n \in 1..Len(issued) :
          m < n => issued[m][1] # issued[n][1] /\ issued[m][2] # issued[n][2]
    /\ \A k1, k2 \in DOMAIN records(batch.matches) :
          k1 # k2 /\ hasVar(records(batch.matches)[k1]) =>
              k2 \notin holders(records(batch.matches), records(batch.matches)[k1].var)

\* The n-th identifier of the allocator sequence that starts at "a".
RECURSIVE allocated(_)
allocated(n) == IF n <= 1 THEN <<"a">> ELSE nextVarName(allocated(n - 1))

\* The matches whose replacement counter is not zero.
replaced(recs) == {key \in DOMAIN recs : "reps" \in DOMAIN recs[key] /\ recs[key].reps # 0}

\* C6: no identifier is wasted: after any number of steps the identifiers
\* the matches hold are exactly the first K of the allocator sequence, K
\* being the number of matches with a nonzero counter, the current
\* identifier is the one after them, and a match with a zero counter holds
\* no identifier.
NoIdentifierWasted ==
    LET recs == records(batch.matches)
        K    == Cardinality(replaced(recs))
    IN  /\ {recs[key].var : key \in {k \in DOMAIN recs : hasVar(recs[k])}}
              = {allocated(n) : n \in 1..K}
        /\ varName = allocated(K + 1)
        /\ \A key \in DOMAIN recs : hasVar(recs[key]) => key \in replaced(recs)

\* The keys of a list of match keys.
keysOf(list) == {list[n] : n \in 1..Len(list)}

\* C7: a match is marked allowed only when its string is at least as long
\* as minSaving plus the reference token of the identifier current at that
\* moment, and as the fixed minimum length when one is set; so a match
\* below the floor is never allowed, however often it occurs, and no match
\* with a replacement is below it.
BelowFloorNeverAllowed ==
    /\ \A n \in 1..Len(judged) :
          judged[n].allowed =>
              /\ Len(judged[n].str) >=
                     options.dedupe.minSaving + Len(shortCode(judged[n].varName))
              /\ Len(judged[n].str) >= options.dedupe.minLength
    /\ \A key \in DOMAIN records(batch.matches) :
          LET match == records(batch.matches)[key]
          IN  isAllowed(match) \/ key \in replaced(records(batch.matches)) =>
                  /\ Len(match.str) >=
                         options.dedupe.minSaving + Len(shortCode(<<"a">>))
                  /\ Len(match.str) >= options.dedupe.minLength

\* A match shorter than the token is judged with as many occurrences as
\* minOcc asks for, and is refused.
BelowFloorNeverAllowedWitness ==
    \E n \in 1..Len(judged) :
        /\ Len(judged[n].str) <
               options.dedupe.minSaving + Len(shortCode(judged[n].varName))
        /\ options.dedupe.minOcc # 0
        /\ judged[n].occTotal >= options.dedupe.minOcc
        /\ ~ judged[n].allowed
        /\ ~ isAllowed(records(batch.matches)[judged[n].key])

\* C12: the occurrence list a match keeps for a file never holds the same
\* fragment offset twice, however many comparisons find the run there again.
OccurrenceOffsetsDistinct ==
    \A key \in DOMAIN records(batch.matches) :
        \A name \in DOMAIN records(batch.matches)[key].occ :
            LET offsets == records(batch.matches)[key].occ[name]
            IN  \A m, n \in 1..Len(offsets) : m # n => offsets[m] # offsets[n]

\* The file of the step has been compared with two other files, both
\* comparisons have found the same run at the same offset of the file, and
\* the record of the run holds that offset once.
OccurrenceOffsetsDistinctWitness ==
    \E m, n \in 1..Len(reported) :
        /\ m < n
        /\ reported[m].str = reported[n].str
        /\ reported[m].a_name = reported[n].a_name
        /\ reported[m].a_pos = reported[n].a_pos
        /\ reported[m].b_name # reported[n].b_name
        /\ reported[m].b_name # reported[m].a_name
        /\ reported[n].b_name # reported[n].a_name
        /\ \E key \in DOMAIN records(batch.matches) :
              /\ records(batch.matches)[key].str = reported[m].str
              /\ reported[m].a_name \in DOMAIN records(batch.matches)[key].occ
              /\ records(batch.matches)[key].occ[reported[m].a_name]
                     = <<reported[m].a_pos>>

\* C13: a file whose skip flag is set (by the justCopy list, by a marker of
\* options.skipContaining in its text, or as a directory or a binary file)
\* takes no part in matching or replacement: no match has an occurrence
\* entry for it, no comparison of the step has it on either side, its
\* deduped flag is not set, and what createOutFiles writes for it is its
\* input unchanged (the directory itself for a directory).
SkippedFilesNeverParticipate ==
    LET files   == records(batch.files)
        matches == records(batch.matches)
    IN  \A key \in DOMAIN files :
            isSet(files[key], "skip") =>
                /\ \A m \in DOMAIN matches :
                       matches[m] # UNDEFINED => key \notin DOMAIN matches[m].occ
                /\ \A n \in 1..Len(reported) :
                       reported[n].a_name # key /\ reported[n].b_name # key
                /\ ~isSet(files[key], "deduped")
                /\ pc \in {"createVarFile", "batchPurgeAll"} => key \in DOMAIN written.files
                /\ key \in DOMAIN written.files =>
                       written.files[key] =
                           [type    |-> IF inPaths[key + 1].type = "dir" THEN "dir" ELSE "file",
                            content |-> inPaths[key + 1].content]

\* A run has ended in which a text file holds the marker next to a string
\* that has been replaced in other files, and has been written as it was.
SkippedFilesNeverParticipateWitness ==
    /\ pc = "batchPurgeAll"
    /\ \E key \in DOMAIN records(batch.files) :
           /\ isSet(records(batch.files)[key], "skip")
           /\ inPaths[key + 1].type = "text"
           /\ ~inPaths[key + 1].justCopy
           /\ written.files[key].content = inPaths[key + 1].content
           /\ \E m \in DOMAIN records(batch.matches) :
                  /\ records(batch.matches)[m] # UNDEFINED
                  /\ "reps" \in DOMAIN records(batch.matches)[m]
                  /\ records(batch.matches)[m].reps # 0
                  /\ contains(addSlashes(inPaths[key + 1].content),
                              records(batch.matches)[m].str)
           /\ \E other \in DOMAIN records(batch.files) :
                  isSet(records(batch.files)[other], "deduped")

\* The shared file as the preprocessor reads it.  The index of the quote that
\* closes the single-quoted literal whose text starts at p, 0 when there is
\* none: a backslash takes the character behind it into the literal.
RECURSIVE literalEnd(_, _)
literalEnd(s, p) ==
    IF p > Len(s) THEN 0
    ELSE IF s[p] = "\\" THEN literalEnd(s, p + 2)
    ELSE IF s[p] = "'" THEN p
    ELSE literalEnd(s, p + 1)

\* The index behind the name that starts at p.
RECURSIVE nameEnd(_, _)
nameEnd(s, p) ==
    IF p > Len(s) \/ s[p] \notin keysOf(Digits \o Letters) THEN p
    ELSE nameEnd(s, p + 1)

NoValue == [ok |-> FALSE, str |-> <<>>, next |-> 0]

\* An expression from p on, up to its semicolon: literals and variables
\* joined by dots.  Its value is given in the form a match string has: the
\* text of a literal as it stands, a variable as its reference token.
RECURSIVE phpTerm(_, _, _)
RECURSIVE phpJoin(_, _, _)
phpTerm(s, p, acc) ==
    IF p > Len(s) THEN NoValue
    ELSE IF s[p] = "'"
    THEN LET e == literalEnd(s, p + 1)
         IN  IF e = 0 THEN NoValue
             ELSE phpJoin(s, e + 1, acc \o SubSeq(s, p + 1, e - 1))
    ELSE IF s[p] = "$" /\ nameEnd(s, p + 1) > p + 1
    THEN phpJoin(s, nameEnd(s, p + 1),
                 acc \o shortCode(SubSeq(s, p + 1, nameEnd(s, p + 1) - 1)))
    ELSE NoValue

phpJoin(s, p, acc) ==
    IF p > Len(s) THEN NoValue
    ELSE IF s[p] = ";" THEN [ok |-> TRUE, str |-> acc, next |-> p + 1]
    ELSE IF s[p] = "." THEN phpTerm(s, p + 1, acc)
    ELSE NoValue

\* What stands for text that is no assignment.
Malformed == [var |-> <<>>, str |-> <<>>]

\* The assignments of the file from p on, in order: the name assigned to
\* and the value.
RECURSIVE assignmentsFrom(_, _)
assignmentsFrom(s, p) ==
    IF p > Len(s) THEN <<>>
    ELSE IF s[p] # "$" \/ nameEnd(s, p + 1) > Len(s) THEN <<Malformed>>
    ELSE IF s[nameEnd(s, p + 1)] # "=" THEN <<Malformed>>
    ELSE LET value == phpTerm(s, nameEnd(s, p + 1) + 1, <<>>)
         IN  IF ~value.ok THEN <<Malformed>>
             ELSE <<[var |-> SubSeq(s, p + 1, nameEnd(s, p + 1) - 1), str |-> value.str]>>
                  \o assignmentsFrom(s, value.next)

assignments(file) ==
    IF startsWith(file, phpOpen) THEN assignmentsFrom(file, Len(phpOpen) + 1)
    ELSE <<Malformed>>

PagedCorpus ==
    LET k == <<"<", "k", ">">>
        z == <<"<", "z", ">">>
        w == <<"<", "w", ">">>
        q == <<"<", "q", ">">>
        text(words) == [type |-> "text", justCopy |-> FALSE, content |-> join(words)]
    IN  <<text(<<k, z, w, z, z>>), text(<<w, z, k, z, z>>),
          text(<<k, k>>), text(<<k, k>>), text(<<z, z>>), text(<<z, z>>),
          text(<<z, z, q, z, z, q>>)>>

InitPaged ==
    /\ pc = "processFiles"
    /\ options \in {RunOption(p, bs, ml, 0) :
                       p \in {1, 2}, bs \in {1, 2, 3, 500}, ml \in {0, 3}}
    /\ inPaths \in {SubSeq(PagedCorpus, 1, n) : n \in 4..Len(PagedCorpus)}
    /\ Constructed
    /\ arg = <<>>
    /\ ret = <<>>

SpecPaged == InitPaged /\ [][Next]_vars

(***************************************************************************)
(* Identifier allocator on its own: the loop of the test 'should generate  *)
(* ten thousand unique vars', which starts at 'a' and keeps every          *)
(* identifier nextVarName returns.                                         *)
(***************************************************************************)
\* The number of iterations of the loop of the test.
TestVars == 10000

InitVars ==
    /\ pc = "nextVarName"
    /\ options = <<>>
    /\ inPaths = <<>>
    /\ Constructed
    /\ arg = <<>>
    /\ ret = <<>>

\* v = app.nextVarName(v); vars.push(v)
CallNextVarName ==
    /\ pc = "nextVarName"
    /\ Len(ret) < TestVars
    /\ varName' = nextVarName(varName)
    /\ ret' = Append(ret, varName')
    /\ UNCHANGED <<pc, options, inPaths, batch, pass, fileKey, escaped, written,
                   new_matches, reported, judged, issued, arg>>

NextVars == CallNextVarName

SpecVars == InitVars /\ [][NextVars]_vars

\* C15: the identifiers generated one after the other from "a" are pairwise
\* distinct: each identifier, when it is generated, differs from "a" and
\* from every identifier generated before it, for any number of them up to
\* the ten thousand of the test.
GeneratedVarsDistinct ==
    ret # <<>> =>
        /\ ret[Len(ret)] # <<"a">>
        /\ \A n \in 1..(Len(ret) - 1) : ret[n] # ret[Len(ret)]

\* The loop has gone through the identifiers of one character and has
\* generated the first one of two.
GeneratedVarsDistinctWitness ==
    /\ ret # <<>>
    /\ ret[Len(ret)] = <<"a", "0">>
    /\ Len(ret) = 26

(***************************************************************************)
(* The identifiers generated from 'a', counted by length: how many of the  *)
(* current length there are so far, and how many there were of each length *)
(* that has been left.                                                     *)
(***************************************************************************)
\* The lengths that are counted to their end.
MaxVarLen == 3

InitLengths ==
    /\ pc = "nextVarName"
    /\ options = <<>>
    /\ inPaths = <<>>
    /\ Constructed
    /\ arg = [count |-> 1]
    /\ ret = <<>>

\* this.varName = this.nextVarName(this.varName), with the counts kept.
CountNextVarName ==
    /\ pc = "nextVarName"
    /\ Len(ret) < MaxVarLen
    /\ varName' = nextVarName(varName)
    /\ IF Len(varName') = Len(varName)
       THEN arg' = [count |-> arg.count + 1] /\ ret' = ret
       ELSE /\ arg' = [count |-> 1]
            /\ ret' = Append(ret, [length |-> Len(varName), count |-> arg.count])
    /\ UNCHANGED <<pc, options, inPaths, batch, pass, fileKey, escaped, written,
                   new_matches, reported, judged, issued>>

NextLengths == CountNextVarName

SpecLengths == InitLengths /\ [][NextLengths]_vars

\* C16: the identifiers generated from "a" never get shorter and each
\* length is exhausted before the next one starts: the lengths left are
\* 1, 2, 3 in that order, 36^n - 10 * 36^(n - 1) identifiers were generated
\* of length n (26, 936, 33696), and the current length is the next one,
\* of which no more than that many have been generated.
LengthSchedule ==
    /\ \A n \in 1..Len(ret) :
           /\ ret[n].length = n
           /\ ret[n].count = 36 ^ n - 10 * 36 ^ (n - 1)
    /\ Len(varName) = Len(ret) + 1
    /\ arg.count <= 36 ^ Len(varName) - 10 * 36 ^ (Len(varName) - 1)
    /\ Len(ret) >= 1 => ret[1].count = 26
    /\ Len(ret) >= 2 => ret[2].count = 936
    /\ Len(ret) >= 3 => ret[3].count = 33696

\* The first identifier of length 4 has been generated.
LengthScheduleWitness ==
    /\ Len(ret) = 3
    /\ ret[3] = [length |-> 3, count |-> 33696]
    /\ Len(varName) = 4

\* C18: every identifier generated from "a" is made of the characters a-z
\* and 0-9 only and starts with a letter, never with a digit.
GeneratedVarsAlphabeticFirst ==
    /\ varName # <<>>
    /\ varName[1] \in keysOf(Letters)
    /\ \A n \in 1..Len(varName) : varName[n] \in keysOf(Digits \o Letters)

\* The identifier behind 'z': the full flip has made a longer one, with a
\* digit in it.
GeneratedVarsAlphabeticFirstWitness ==
    /\ varName = <<"a", "0">>
    /\ arg.count = 1

(***************************************************************************)
(* nextVarName on its own, called with any string over NameChars and with  *)
(* the strings of the tests.                                               *)
(***************************************************************************)
\* A letter and a digit with a successor, the last ones with a successor,
\* and the two characters nextVarName treats on their own.
NameChars == {"a", "y", "z", "0", "8", "9"}

MaxNameLen == 4       \* longest string over NameChars handed to nextVarName

\* The arguments of the tests of nextVarName.
TestNames ==
    {<<"z">>,
     <<"a", "b", "1", "z", "d", "e">>,
     <<"a", "b", "c", "d", "z", "z">>,
     <<"z", "z", "z", "z", "z">>,
     <<"a", "b", "c", "y", "z", "z">>,
     <<"9", "0", "0", "0">>,
     <<"a", "9", "z">>,
     <<"a", "9">>}

InitNames ==
    /\ pc = "nextVarName"
    /\ options = <<>>
    /\ inPaths = <<>>
    /\ Constructed
    /\ arg \in {[str |-> str] :
                   str \in (StringsUpTo(NameChars, MaxNameLen) \ {<<>>}) \cup TestNames}
    /\ ret = <<>>

CallNextVarNameOn ==
    /\ pc = "nextVarName"
    /\ ret' = nextVarName(arg.str)
    /\ pc' = "returned"
    /\ UNCHANGED <<options, inPaths, batch, varName, pass, fileKey, escaped, written,
                   new_matches, reported, judged, issued, arg>>

NextNames == CallNextVarNameOn

SpecNames == InitNames /\ [][NextNames]_vars

\* The examples of the carry: argument and result.
CarryExamples ==
    {<<<<"z">>, <<"a", "0">>>>,
     <<<<"a", "b", "1", "z", "d", "e">>, <<"a", "b", "1", "z", "d", "f">>>>,
     <<<<"a", "b", "c", "d", "z", "z">>, <<"a", "b", "c", "e", "0", "0">>>>,
     <<<<"z", "z", "z", "z", "z">>, <<"a", "0", "0", "0", "0", "0">>>>,
     <<<<"9", "0", "0", "0">>, <<"9", "0", "0", "1">>>>,
     <<<<"a", "9", "z">>, <<"a", "a", "0">>>>}

\* C17: for an identifier s over a-z and 0-9, nextVarName(s) is s with its
\* longest run of 'z' at the end replaced by as many '0' and with the
\* character before that run replaced by its successor, 'a' for '9'; when
\* s is made of 'z' only it is 'a' followed by one '0' for each character
\* of s.  The examples z, ab1zde, abcdzz, zzzzz, 9000 and a9z give a0,
\* ab1zdf, abce00, a00000, 9001 and aa0.
TrailingZsCarry ==
    pc = "returned" =>
        LET s       == arg.str
            n       == Len(arg.str)
            succ(c) == (Digits \o Letters)[indexIn(Digits \o Letters, c) + 1]
        IN  /\ \E k \in 0..n :
                   /\ \A i \in (n - k + 1)..n : s[i] = "z"
                   /\ k < n => s[n - k] # "z"
                   /\ IF k = n THEN ret = <<"a">> \o [i \in 1..n |-> "0"]
                      ELSE /\ Len(ret) = n
                           /\ \A i \in 1..(n - k - 1) : ret[i] = s[i]
                           /\ ret[n - k] = succ(s[n - k])
                           /\ \A i \in (n - k + 1)..n : ret[i] = "0"
            /\ \A e \in CarryExamples : s = e[1] => ret = e[2]

\* nextVarName has returned for a9z: one 'z' flipped behind a '9'.
TrailingZsCarryWitness ==
    /\ pc = "returned"
    /\ arg.str = <<"a", "9", "z">>
    /\ ret = <<"a", "a", "0">>

(***************************************************************************)
(* The call of webArchiver from its first statement: the checks of the     *)
(* options, createOptions, the search for the input files and the creation *)
(* of the two collections, then the run.                                   *)
(***************************************************************************)
\* Faulty variant: the output options are checked before the input pattern.
configErrorOutputFirst(options_, found) ==
    IF options_ = UNDEFINED THEN "No options given."
    ELSE IF ~isSet(options_, "inPlace") /\ ~("output" \in DOMAIN options_ /\ options_.output # "")
    THEN "You must set either 'output' or 'inplace'."
    ELSE IF "files" \notin DOMAIN options_ THEN "No input files defined in options."
    ELSE IF found = <<>> THEN "No input files found."
    ELSE ""

\* The message of the error webArchiver throws in lines 24-37 for the
\* options it is called with, found being what globby.sync returns for
\* options.files; "" when it throws none.  An absent property is
\* undefined, which is == null and falsy, as the empty string is.
configError(options_, found) ==
    IF options_ = UNDEFINED THEN "No options given."
    ELSE IF "files" \notin DOMAIN options_ THEN "No input files defined in options."
    ELSE IF ~isSet(options_, "inPlace") /\ ~("output" \in DOMAIN options_ /\ options_.output # "")
    THEN "You must set either 'output' or 'inplace'."
    ELSE IF found = <<>> THEN "No input files found."
    ELSE ""

\* createOptions: the defaults with the options given merged in.  The
\* calls of this model give minify as false and dedupe.minSaving as 0.
createOptions(options_) ==
    RunOption(IF "passes" \in DOMAIN options_ THEN options_.passes ELSE 2,
              500, options_.dedupe.minLength, 0)

\* The options webArchiver is called with: none (undefined), or an object
\* with or without an input pattern, inPlace and output.
CallOptions ==
    {UNDEFINED} \cup
    { files @@ inPlace @@ output @@ passes @@
      [minify |-> FALSE, dedupe |-> [minLength |-> ml, minSaving |-> 0]] :
          files   \in {<<>>, [files |-> "*.html"]},
          inPlace \in {<<>>, [inPlace |-> FALSE], [inPlace |-> TRUE]},
          output  \in {<<>>, [output |-> ""], [output |-> "out"]},
          passes  \in {<<>>, [passes |-> 1]},
          ml      \in {0, 3} }

\* The files of a call, all together of at most this many words.
MaxFoundWords == 2

\* The state before the call: no options, no input paths, no collection
\* and no identifier yet.
InitCall ==
    /\ pc = "webArchiver"
    /\ arg \in {[options |-> o, found |-> f] :
                   o \in CallOptions, f \in FileLists(MaxFoundWords)}
    /\ options = <<>>
    /\ inPaths = <<>>
    /\ batch = <<>>
    /\ varName = <<>>
    /\ pass = 0
    /\ fileKey = 0
    /\ escaped = <<>>
    /\ new_matches = <<>>
    /\ reported = <<>>
    /\ judged = <<>>
    /\ issued = <<>>
    /\ written = [files |-> <<>>, vFile |-> <<>>]
    /\ ret = <<>>

\* webArchiver up to its call of processFiles (lines 22-63), or up to the
\* error it throws.
WebArchiver ==
    /\ pc = "webArchiver"
    /\ IF configError(arg.options, arg.found) # ""
       THEN /\ pc' = "Error"
            /\ ret' = configError(arg.options, arg.found)
            /\ UNCHANGED <<options, inPaths, batch, varName>>
       ELSE /\ pc' = "processFiles"
            /\ options' = createOptions(arg.options)
            /\ inPaths' = arg.found
            /\ varName' = <<"a">>
            /\ batch' = [files |-> batchCreate, matches |-> batchCreate]
            /\ ret' = ret
    /\ UNCHANGED <<pass, fileKey, escaped, written, new_matches, reported, judged,
                   issued, arg>>

NextCall == WebArchiver \/ Next

SpecCall == InitCall /\ [][NextCall]_vars

\* C19: webArchiver throws when no options are given, when no input pattern
\* is given, when neither an output directory nor in-place mode is set, and
\* when the pattern matches no file; the conditions are tested in that
\* order, so that the error is that of the first one that holds; and when
\* it has thrown, no collection has been created, no input file read and
\* nothing written.  A call for which none holds throws none of them.
ConfigurationErrorsFirst ==
    LET o == arg.options
        expected ==
            IF o = UNDEFINED THEN "No options given."
            ELSE IF "files" \notin DOMAIN o THEN "No input files defined in options."
            ELSE IF /\ ("inPlace" \notin DOMAIN o \/ ~o.inPlace)
                    /\ ("output" \notin DOMAIN o \/ o.output = "")
            THEN "You must set either 'output' or 'inplace'."
            ELSE IF Len(arg.found) = 0 THEN "No input files found."
            ELSE ""
    IN  /\ pc # "webArchiver" => (pc = "Error") = (expected # "")
        /\ pc = "Error" =>
               /\ ret = expected
               /\ batch = <<>>
               /\ inPaths = <<>>
               /\ escaped = <<>>
               /\ written = [files |-> <<>>, vFile |-> <<>>]

\* webArchiver has thrown for a call in which two conditions hold: no
\* output option, and a pattern that matches no file.
ConfigurationErrorsFirstWitness ==
    /\ pc = "Error"
    /\ ret = "You must set either 'output' or 'inplace'."
    /\ arg.options # UNDEFINED
    /\ "files" \in DOMAIN arg.options
    /\ arg.found = <<>>

(***************************************************************************)
(* addSlashes on its own, called with any string over a backslash, a       *)
(* quote and a letter.                                                     *)
(***************************************************************************)
SlashChars == {"\\", "'", "a"}

InitSlashes ==
    /\ pc = "addSlashes"
    /\ options = <<>>
    /\ inPaths = <<>>
    /\ Constructed
    /\ arg \in {[str |-> str] : str \in StringsUpTo(SlashChars, MaxStrLen)}
    /\ ret = <<>>

CallAddSlashes ==
    /\ pc = "addSlashes"
    /\ ret' = addSlashes(arg.str)
    /\ pc' = "returned"
    /\ UNCHANGED <<options, inPaths, batch, varName, pass, fileKey, escaped, written,
                   new_matches, reported, judged, issued, arg>>

NextSlashes == CallAddSlashes

SpecSlashes == InitSlashes /\ [][NextSlashes]_vars

\* What a single-quoted literal with the text s between its quotes denotes,
\* from index p on: backslash-backslash is a backslash, backslash-quote a
\* quote, any other character itself.  A quote that is not behind a
\* backslash ends the literal, and so does a last backslash, which takes
\* the closing quote: the text is then no literal at all.
NoLiteral == <<"no literal">>

RECURSIVE denotes(_, _)
denotes(s, p) ==
    IF p > Len(s) THEN <<>>
    ELSE IF s[p] = "'" THEN NoLiteral
    ELSE IF s[p] # "\\" THEN <<s[p]>> \o denotes(s, p + 1)
    ELSE IF p = Len(s) THEN NoLiteral
    ELSE IF s[p + 1] \in {"\\", "'"} THEN <<s[p + 1]>> \o denotes(s, p + 2)
    ELSE <<s[p]>> \o denotes(s, p + 1)

\* The escaped form of a string: each backslash and each quote behind a
\* backslash of its own.
RECURSIVE escapedForm(_)
escapedForm(str) ==
    IF str = <<>> THEN <<>>
    ELSE (IF Head(str) \in {"\\", "'"} THEN <<"\\", Head(str)>> ELSE <<Head(str)>>)
         \o escapedForm(Tail(str))

\* C20: addSlashes escapes every backslash and every quote of the text, so
\* that the escaped text, read as a single-quoted string literal, denotes
\* exactly the original text.
EscapedTextDenotesOriginal ==
    pc = "returned" =>
        /\ ret = escapedForm(arg.str)
        /\ denotes(ret, 1) = arg.str


\* The place of an identifier in the allocator sequence that starts at
\* "a" (0 when it is not among the first MaxAllocated).
MaxAllocated == 40

RECURSIVE placeFrom(_, _, _)
placeFrom(v, cur, n) ==
    IF cur = v THEN n
    ELSE IF n >= MaxAllocated THEN 0
    ELSE placeFrom(v, nextVarName(cur), n + 1)

placeOf(v) == placeFrom(v, <<"a">>, 1)

\* C26: identifiers are committed in the order of the allocator, following
\* the order in which the matches come to be replaced: of two matches, the
\* one that receives its identifier at the earlier step (by pass, then
\* file, then order of discovery) has the identifier that comes first in
\* the allocator sequence, and it is not the longer one.
IdentifiersInCommitOrder ==
    \A m, n \in 1..Len(issued) :
        m < n =>
            /\ placeOf(issued[m][2]) > 0
            /\ placeOf(issued[m][2]) < placeOf(issued[n][2])
            /\ Len(issued[m][2]) <= Len(issued[n][2])

\* Two matches have received the identifiers a and b, and the run is in
\* its second pass.
IdentifiersInCommitOrderWitness ==
    /\ Len(issued) >= 2
    /\ issued[1][1] # issued[2][1]
    /\ pass = 1
    /\ Len(ret) > Len(inPaths)
    /\ varName = <<"c">>
    /\ issued[Len(issued)][2] = <<"b">>

\* The tokens of identifier v in the fragments of the file of key fk, as the
\* collection of files holds them.
tokensOf(files, fk, v) ==
    IF "frags" \in DOMAIN files[fk] THEN tokensIn(files[fk].frags, shortCode(v)) ELSE 0

\* The number of times the text str refers to identifier v: by a token of
\* v, or by the token of a match whose string refers to it.
RECURSIVE referencesFrom(_, _, _, _, _)
referencesFrom(str, p, recs, v, fuel) ==
    IF p > Len(str) THEN 0
    ELSE IF str[p] = "\\" /\ p < Len(str)
    THEN referencesFrom(str, p + 2, recs, v, fuel)
    ELSE IF tokenStartsAt(str, p)
    THEN LET e  == tokenNameEnd(str, p)
             hs == holders(recs, SubSeq(str, p + 3, e - 1))
         IN  (IF SubSeq(str, p + 3, e - 1) = v THEN 1
              ELSE IF Cardinality(hs) # 1 \/ fuel = 0 THEN 0
              ELSE referencesFrom(recs[CHOOSE key \in hs : TRUE].str, 1, recs, v, fuel - 1))
             + referencesFrom(str, e + 2, recs, v, fuel)
    ELSE referencesFrom(str, p + 1, recs, v, fuel)

referencesOf(files, fk, recs, v) ==
    IF "frags" \in DOMAIN files[fk]
    THEN referencesFrom(join(files[fk].frags), 1, recs, v, Cardinality(DOMAIN recs))
    ELSE 0

\* The record of an accepted match after a step: it is still there, with
\* the same identifier and a counter that is not smaller.
keptRecord(recs, recsAfter, key) ==
    /\ key \in DOMAIN recsAfter
    /\ hasVar(recsAfter[key])
    /\ recsAfter[key].var = recs[key].var
    /\ "reps" \in DOMAIN recsAfter[key]
    /\ recsAfter[key].reps >= recs[key].reps

isToken(frag) == Len(frag) >= 6 /\ SubSeq(frag, 1, 3) = <<"'", ".", "$">>

hasToken(file) ==
    "frags" \in DOMAIN file /\ \E n \in 1..Len(file.frags) : isToken(file.frags[n])

\* The start of a file written with the inclusion and output wrapper, as
\* fixCodes leaves it.
wrapper == <<"<", "?", "p", "h", "p", " ", "i", "n", "c", "l", "u", "d", "e", " ", "'">>
           \o vFileName \o <<"'", ";", "e", "c", "h", "o", " ">>

\* C28: at every point of a run the deduped flag of a file is set exactly
\* when its fragments hold at least one reference token, and the files
\* written with the inclusion and output wrapper are exactly those.
DedupedIffToken ==
    /\ \A fk \in DOMAIN records(batch.files) :
           isSet(records(batch.files)[fk], "deduped") <=> hasToken(records(batch.files)[fk])
    /\ pc \in {"createVarFile", "batchPurgeAll"} =>
           \A fk \in DOMAIN records(batch.files) :
               /\ records(batch.files)[fk].type = "text" => fk \in DOMAIN written.files
               /\ fk \in DOMAIN written.files =>
                      (hasToken(records(batch.files)[fk])
                          <=> /\ Len(written.files[fk].content) >= Len(wrapper)
                              /\ SubSeq(written.files[fk].content, 1, Len(wrapper)) = wrapper)

\* The files have been written: one with the wrapper, one that was
\* fragmented and has no token, without it.
DedupedIffTokenWitness ==
    /\ pc = "createVarFile"
    /\ \E f1, f2 \in DOMAIN records(batch.files) :
           /\ hasToken(records(batch.files)[f1])
           /\ "frags" \in DOMAIN records(batch.files)[f2]
           /\ ~hasToken(records(batch.files)[f2])
           /\ written.files[f2].content = inPaths[f2 + 1].content

(***************************************************************************)
(* Termination of the run.  webArchiver is one synchronous call: each      *)
(* iteration of its loops and each of its calls is run when the one before *)
(* it has returned, which is weak fairness of the steps of the run.        *)
(***************************************************************************)
\* Next is enabled exactly where pc is the label of one of its actions,
\* their primed variables being functions of the state, and each of its
\* steps changes pc or ret.  SpecFair is Spec with weak fairness of Next,
\* WF_vars(Next), in which ENABLED <<Next>>_vars is written as that
\* predicate.
Running == {"processFiles", "createOutFiles", "createVarFile"}

SpecFair == Spec /\ (<>[](pc \in Running) => []<><<Next>>_vars)

\* The iterations of processFiles in the order of its two loops.
iteration(n) ==
    [pass |-> (n - 1) \div Len(inPaths), fileKey |-> (n - 1) % Len(inPaths)]

\* Another pass would find a match in some file.
anotherPassFinds ==
    \E fk \in 0..(Len(inPaths) - 1) :
        processFile(this, options.passes, fk).new_matches # <<>>

StepsInOrder ==
    /\ \A n \in 1..Len(ret) : ret[n] = iteration(n)
    /\ pc = "processFiles" =>
           /\ Len(ret) < options.passes * Len(inPaths)
           /\ [pass |-> pass, fileKey |-> fileKey] = iteration(Len(ret) + 1)
    /\ pc \in {"createOutFiles", "createVarFile", "batchPurgeAll"} =>
           Len(ret) = options.passes * Len(inPaths)
    /\ pc \in {"processFiles", "createOutFiles", "createVarFile", "batchPurgeAll"}

\* C25: every run ends, after exactly passes x numFiles iterations of
\* processFiles followed by the output: the files are processed by
\* ascending ordinal within a pass, a pass starts when the pass before it
\* has processed every file, and no pass is run beyond the configured
\* number, whether or not one more would find matches.
RunTerminates == []StepsInOrder /\ <>(pc = "batchPurgeAll")

\* A run of one pass over several files has ended although one more pass
\* would have found a match.
RunTerminatesWitness ==
    /\ pc = "batchPurgeAll"
    /\ options.passes = 1
    /\ Len(inPaths) > 1
    /\ Len(ret) = Len(inPaths)
    /\ anotherPassFinds

(***************************************************************************)
(* The record store on its own: one collection, with a page capacity drawn *)
(* from 1 .. MaxBatchSize, to which inserts, updates, reads by key and by  *)
(* property and full iterations are applied in any order.  The records are *)
(* [id, n]: id names the record, n is the version an update changes.  arg  *)
(* keeps what the caller has passed: arg.inserted the value of each        *)
(* insert under the key it returned, arg.updated the value of the last     *)
(* update of each key.  ret is the last call: the collection before it,    *)
(* its arguments and what it returned.                                     *)
(***************************************************************************)
MaxBatchSize == 3
MaxRecords == 4

\* The collection of the store specification.
store == batch.matches

newRecord(ordinal) == [id |-> 10 + ordinal, n |-> 0]

\* batchIterator(name) run to its end: the resident page is written when
\* there are several pages, then each page is loaded in turn and its records
\* are yielded by ascending key.
RECURSIVE batchIteratorLoop(_, _, _)
batchIteratorLoop(b, page, yields) ==
    IF page >= b.batches THEN [b |-> b, yields |-> yields]
    ELSE LET loaded == batchLoad(b, page)
             keys   == sortedKeys(DOMAIN loaded.data)
         IN  IF loaded.enoent THEN [b |-> loaded, yields |-> yields]
             ELSE batchIteratorLoop(loaded, page + 1,
                      yields \o [n \in 1..Len(keys) |->
                                    [key |-> keys[n], value |-> loaded.data[keys[n]]]])

\* Faulty variant: the resident page is not written first.
batchIteratorNoFlush(b) == batchIteratorLoop(b, 0, <<>>)

batchIterator(b) ==
    batchIteratorLoop(IF b.batches > 1 THEN batchSaveCurrent(b) ELSE b, 0, <<>>)

InitStore ==
    /\ pc = "store"
    /\ options \in {[batchSize |-> bs] : bs \in 1..MaxBatchSize}
    /\ inPaths = <<>>
    /\ batch = [files |-> batchCreate, matches |-> batchCreate]
    /\ varName = <<>>
    /\ pass = 0
    /\ fileKey = 0
    /\ escaped = <<>>
    /\ written = [files |-> <<>>, vFile |-> <<>>]
    /\ new_matches = <<>>
    /\ reported = <<>>
    /\ judged = <<>>
    /\ issued = <<>>
    /\ arg = [inserted |-> <<>>, updated |-> <<>>]
    /\ ret = [op |-> "batchCreate"]

StoreUnchanged ==
    UNCHANGED <<pc, options, inPaths, varName, pass, fileKey, escaped, written,
                new_matches, reported, judged, issued>>

\* The collection and the history after batchInsert(name, null, value).
Inserted(ins, value) ==
    /\ batch' = [batch EXCEPT !.matches = ins.b]
    /\ arg' = [arg EXCEPT !.inserted = (ins.key :> value) @@ @]
    /\ ret' = [op |-> "batchInsert", before |-> store, key |-> ins.key, value |-> value]

StoreInsert ==
    /\ pc = "store"
    /\ store.totalLen < MaxRecords
    /\ Inserted(batchInsert(store, -1, newRecord(store.totalLen)),
                newRecord(store.totalLen))
    /\ StoreUnchanged

\* batchUpdate(name, key, value), for a key that has been inserted or for
\* the next key, with a record of version 1.  The updates of keys that the
\* collection does not have are counted with the inserts.
StoreUpdate ==
    /\ pc = "store"
    /\ \E key \in 0..store.totalLen :
          /\ ~batchRead(store, key, "").found => store.totalLen < MaxRecords
          /\ batch' = [batch EXCEPT !.matches = batchUpdate(@, key, [id |-> 10 + key, n |-> 1])]
          /\ arg' = [arg EXCEPT !.updated = (key :> [id |-> 10 + key, n |-> 1]) @@ @]
          /\ ret' = [op |-> "batchUpdate", before |-> store, key |-> key,
                     value |-> [id |-> 10 + key, n |-> 1]]
    /\ StoreUnchanged

\* What a batchRead has returned: the value, undefined, or the error thrown.
returned(b, r, throws) ==
    IF throws THEN "TypeError"
    ELSE IF r.b.enoent THEN "ENOENT"
    ELSE IF r.found THEN [key |-> r.key, value |-> r.b.data[r.key]]
    ELSE UNDEFINED

Read(r, search, prop, throws) ==
    /\ batch' = [batch EXCEPT !.matches = IF throws THEN @ ELSE r.b]
    /\ ret' = [op |-> "batchRead", before |-> store, search |-> search, prop |-> prop,
               returned |-> returned(store, r, throws)]
    /\ UNCHANGED arg

\* batchRead(name, key)
StoreRead ==
    /\ pc = "store"
    /\ \E key \in 0..(MaxRecords - 1) : Read(batchRead(store, key, ""), key, "", FALSE)
    /\ StoreUnchanged

\* batchRead(name, id, 'id')
StoreReadBy ==
    /\ pc = "store"
    /\ \E key \in 0..(MaxRecords - 1) :
          Read(batchRead(store, 10 + key, "id"), 10 + key, "id",
               batchFilterThrows(store, "id", 10 + key))
    /\ StoreUnchanged

Iterated(it) ==
    /\ batch' = [batch EXCEPT !.matches = it.b]
    /\ ret' = [op |-> "batchIterator", before |-> store, yields |-> it.yields]
    /\ UNCHANGED arg

\* A loop over batchIterator(name) that runs to the end.
StoreIterate ==
    /\ pc = "store"
    /\ Iterated(batchIterator(store))
    /\ StoreUnchanged

NextStore == StoreInsert \/ StoreUpdate \/ StoreRead \/ StoreReadBy \/ StoreIterate

SpecStore == InitStore /\ [][NextStore]_vars


\* The values the caller has passed for a key: that of its insert and that
\* of its last update.
passedFor(key) ==
    {arg.inserted[key]} \cup
    (IF key \in DOMAIN arg.updated THEN {arg.updated[key]} ELSE {})

\* batchRead(name, search, prop) returns the record of key, with a value
\* the caller has passed for it.
readReturns(b, key, search, prop) ==
    /\ prop # "" => ~batchFilterThrows(b, prop, search)
    /\ LET r == batchRead(b, search, prop)
       IN  /\ ~r.b.enoent
           /\ r.found
           /\ r.key = key
           /\ r.b.data[key] \in passedFor(key)

\* C21: in every state of a collection to which inserts, updates, reads and
\* iterations have been applied, whichever page is resident and however
\* many pages have been written, a read by key and a read by property
\* return the stored record of every record that was inserted.
ReadsReturnStoredRecords ==
    pc = "store" =>
        \A key \in DOMAIN arg.inserted :
            /\ readReturns(store, key, key, "")
            /\ readReturns(store, key, arg.inserted[key].id, "id")

\* The same, as long as each update was of a key the collection had.
ReadsReturnStoredRecordsKnownKeys ==
    (pc = "store" /\ DOMAIN arg.updated \subseteq DOMAIN arg.inserted)
        => ReadsReturnStoredRecords


\* C22: after batchUpdate(name, key, value), a read of the key returns the
\* value that was passed to the update, when the collection had the key
\* (the record is replaced by the value) and when it had not (the value is
\* inserted under the key).
UpdatedValueIsRead ==
    (pc = "store" /\ ret.op = "batchUpdate") =>
        LET r == batchRead(store, ret.key, "")
        IN  /\ r.found
            /\ r.b.data[ret.key] = ret.value


\* The records of a page: those in memory for the resident page, those last
\* written for another.
pageData(b, page) ==
    IF page = b.current THEN b.data
    ELSE IF page \in DOMAIN b.disk THEN b.disk[page] ELSE <<>>

\* C23: with a page capacity of at least 1, no page ever holds more records
\* than the capacity; an insert that finds the last page full writes the
\* resident page and starts a new page, which is then the resident page,
\* the last one, and holds the new record only.
PagesWithinCapacity ==
    pc = "store" =>
        /\ \A page \in 0..(store.batches - 1) :
               Cardinality(DOMAIN pageData(store, page)) <= options.batchSize
        /\ (/\ ret.op = "batchInsert"
            /\ Cardinality(DOMAIN pageData(ret.before, ret.before.batches - 1))
                   >= options.batchSize)
           => /\ store.batches = ret.before.batches + 1
              /\ store.current = store.batches - 1
              /\ store.data = (ret.key :> ret.value)
              /\ ret.before.current \in DOMAIN store.disk
              /\ store.disk[ret.before.current] = stringify(ret.before.data)

\* An insert has found the last page full while an earlier page was
\* resident.
PagesWithinCapacityWitness ==
    /\ pc = "store"
    /\ ret.op = "batchInsert"
    /\ ret.before.batches > 1
    /\ ret.before.current # ret.before.batches - 1
    /\ Cardinality(DOMAIN pageData(ret.before, ret.before.batches - 1))
           >= options.batchSize


\* The yields of an iteration that are records: a key left without a value
\* by an update is yielded with undefined as long as its page has stayed
\* in memory.
RECURSIVE recordsOf(_)
recordsOf(yields) ==
    IF yields = <<>> THEN <<>>
    ELSE (IF Head(yields).value = UNDEFINED THEN <<>> ELSE <<Head(yields)>>)
         \o recordsOf(Tail(yields))

\* C24: a full iteration yields every stored record exactly once, by
\* ascending key across all the pages, with the value the collection held
\* for it when the iteration started.
IterationYieldsEveryRecord ==
    (pc = "store" /\ ret.op = "batchIterator") =>
        LET held   == stringify(records(ret.before))
            yields == recordsOf(ret.yields)
        IN  /\ ~store.enoent
            /\ Len(yields) = Cardinality(DOMAIN held)
            /\ \A n \in 1..Len(yields) :
                  /\ yields[n].key \in DOMAIN held
                  /\ yields[n].value = held[yields[n].key]
                  /\ n > 1 => yields[n - 1].key < yields[n].key

\* The same for the yields as they are, undefined values included.
IterationYieldsOnlyRecords ==
    (pc = "store" /\ ret.op = "batchIterator") =>
        /\ IterationYieldsEveryRecord
        /\ recordsOf(ret.yields) = ret.yields

\* An iteration over several pages has started while the resident page
\* held a record that had not been written.
IterationYieldsEveryRecordWitness ==
    /\ pc = "store"
    /\ ret.op = "batchIterator"
    /\ ret.before.batches > 1
    /\ ret.before.current > 0
    /\ \/ ret.before.current \notin DOMAIN ret.before.disk
       \/ ret.before.disk[ret.before.current] # ret.before.data
    /\ Len(recordsOf(ret.yields)) > 2


(***************************************************************************)
(* Runs with and without deduplication and minification: the options       *)
(* dedupe: false and minify: false of the tests 'without deduplication'    *)
(* and 'without minification or deduplication', over files whose texts     *)
(* hold whitespace between their tags.                                     *)
(***************************************************************************)
MaxFiles == 2

OutputTexts ==
    { <<"<", "z", ">", " ", "<", "z", ">">>,
      <<"<", "z", ">", "<", "z", ">">>,
      <<"<", "z", ">", "\n">>,
      <<"<", "?", ">", " ">> }

OutputFiles ==
    {[type |-> "text", justCopy |-> FALSE, content |-> text] : text \in OutputTexts}
    \cup {[type |-> "text", justCopy |-> TRUE, content |-> <<"<", "z", ">", " ">>],
          [type |-> "bin", justCopy |-> FALSE, content |-> <<"<", "z", ">", " ">>],
          [type |-> "dir", justCopy |-> FALSE, content |-> <<>>]}

RECURSIVE OutputLists(_)
OutputLists(n) ==
    IF n = 0 THEN {<<>>}
    ELSE {<<>>} \cup {<<file>> \o rest : file \in OutputFiles, rest \in OutputLists(n - 1)}

OutputOption(p, bs, dedupe, min) ==
    [RunOption(p, bs, 0, 0) EXCEPT !.minify = min,
                                   !.dedupe = IF dedupe THEN @ ELSE Disabled]

InitOutput ==
    /\ pc = "processFiles"
    /\ options \in {OutputOption(p, bs, dedupe, min) :
                       p \in {1, 2}, bs \in {1, 500}, dedupe \in BOOLEAN, min \in BOOLEAN}
    /\ inPaths \in OutputLists(MaxFiles) \ {<<>>}
    /\ Constructed
    /\ arg = <<>>
    /\ ret = <<>>

SpecOutput == InitOutput /\ [][Next]_vars

\* A text contains a reference token or the inclusion statement.
carriesCode(text) ==
    \/ indexOf(text, <<"'", ".", "$">>) # {}
    \/ indexOf(text, <<"<", "?", "p", "h", "p">>) # {}
    \/ indexOf(text, <<"i", "n", "c", "l", "u", "d", "e">>) # {}

\* The run is over: both output functions have returned.
finished == pc = "batchPurgeAll"

\* C29: with deduplication disabled no file is ever fragmented or marked
\* deduped, no match record is created and no identifier is spent, so that
\* no output file carries an inclusion statement or a reference token; and
\* with minification disabled as well, the output of each text file equals
\* its input.
NothingDedupedWhenDisabled ==
    options.dedupe = Disabled =>
        /\ \A fk \in DOMAIN records(batch.files) :
               /\ "frags" \notin DOMAIN records(batch.files)[fk]
               /\ ~isSet(records(batch.files)[fk], "deduped")
        /\ batch.matches = batchCreate
        /\ varName = <<"a">>
        /\ issued = <<>>
        /\ \A fk \in DOMAIN written.files : ~carriesCode(written.files[fk].content)
        /\ finished =>
               /\ written.vFile = phpOpen
               /\ \A fk \in 0..(Len(inPaths) - 1) :
                      inPaths[fk + 1].type = "text" =>
                          /\ fk \in DOMAIN written.files
                          /\ ~options.minify =>
                                 written.files[fk].content = inPaths[fk + 1].content

\* A run without deduplication and without minification has ended, over
\* two text files of which the second repeats a tag of the first.
NothingDedupedWhenDisabledWitness ==
    /\ finished
    /\ options.dedupe = Disabled
    /\ ~options.minify
    /\ options.passes = 2
    /\ Len(inPaths) = 2
    /\ inPaths[1].content = <<"<", "z", ">", "<", "z", ">">>
    /\ inPaths[2] = inPaths[1]
    /\ written.files[0].content = inPaths[1].content


\* C30: every text file that is not skipped and ends the run without a
\* replacement is written as its text after minification when minification
\* is enabled, and unchanged otherwise, with deduplication enabled or
\* disabled.
UnreplacedTextEmitted ==
    finished =>
        \A fk \in DOMAIN records(batch.files) :
            (/\ records(batch.files)[fk].type = "text"
             /\ ~isSet(records(batch.files)[fk], "skip")
             /\ ~hasToken(records(batch.files)[fk]))
            => /\ fk \in DOMAIN written.files
               /\ written.files[fk].content =
                      (IF options.minify THEN minify(inPaths[fk + 1].content)
                       ELSE inPaths[fk + 1].content)

\* The same for the runs with deduplication disabled.
UnreplacedTextEmittedWithoutDedupe ==
    options.dedupe = Disabled => UnreplacedTextEmitted

\* The same for the runs without minification.
UnreplacedTextEmittedWithoutMinify ==
    ~options.minify => UnreplacedTextEmitted

(***************************************************************************)
(* Properties of the run whose match collection fills several pages.       *)
(***************************************************************************)
\* The records of the match collection that hold a value.
matchRecords ==
    [key \in {k \in DOMAIN records(batch.matches) :
                 records(batch.matches)[k] # UNDEFINED}
        |-> records(batch.matches)[key]]

\* C31: after any sequence of calls of the match finder no two records of
\* the match collection have the same string, on whichever pages they lie:
\* a run whose string has a record adds its offsets to that record.
MatchStringsUnique ==
    /\ \A k1, k2 \in DOMAIN matchRecords :
          k1 # k2 => matchRecords[k1].str # matchRecords[k2].str
    /\ \A n \in 1..Len(reported) :
          \E key \in DOMAIN matchRecords :
              /\ matchRecords[key].str = reported[n].str
              /\ reported[n].a_name \in DOMAIN matchRecords[key].occ
              /\ reported[n].b_name \in DOMAIN matchRecords[key].occ

\* With one record to a page, a step has found a string, then another
\* string, then the first one again, whose record is no longer resident.
MatchStringsUniqueWitness ==
    /\ options.batchSize = 1
    /\ batch.matches.batches > 1
    /\ \E l, m, n \in 1..Len(reported) :
          /\ l < m /\ m < n
          /\ reported[l].str = reported[n].str
          /\ reported[m].str # reported[n].str

\* C32: what a step assigns to a match record while the record is visited
\* by the full iteration (a newly assigned identifier, an incremented
\* counter) is still in the record when it is read after the iteration has
\* gone on to later pages: every match that was issued an identifier holds
\* that identifier and a nonzero counter from then on.
IterationChangesKept ==
    \A n \in 1..Len(issued) :
        /\ issued[n][1] \in DOMAIN matchRecords
        /\ hasVar(matchRecords[issued[n][1]])
        /\ matchRecords[issued[n][1]].var = issued[n][2]
        /\ matchRecords[issued[n][1]].reps # 0

\* The identifiers named by the reference tokens that occur in str.
tokenNames(str) ==
    {SubSeq(str, p + 3, tokenNameEnd(str, p) - 1) :
        p \in {q \in 1..Len(str) : tokenStartsAt(str, q)}}

\* The identifiers the shared file assigns to.
assignedNames == {assignments(written.vFile)[n].var :
                     n \in 1..Len(assignments(written.vFile))}

\* C33: at the end of a run every reference token in the final fragments of
\* a deduped file, and every reference token inside a match string written
\* to the shared file, names an identifier the shared file assigns to.
TokensAreAssigned ==
    pc = "batchPurgeAll" =>
        /\ \A fk \in DOMAIN records(batch.files) :
               isSet(records(batch.files)[fk], "deduped") =>
                   \A n \in 1..Len(records(batch.files)[fk].frags) :
                       tokenNames(records(batch.files)[fk].frags[n]) \subseteq assignedNames
        /\ \A n \in 1..Len(assignments(written.vFile)) :
               tokenNames(assignments(written.vFile)[n].str) \subseteq assignedNames

\* The same for the runs whose match collection has a single page.
TokensAreAssignedOnOnePage ==
    batch.matches.batches = 1 => TokensAreAssigned

\* The key of the match whose string the n-th assignment of the shared file
\* assigns, as a set (one key, by the uniqueness of the strings).
assignedKey(n) ==
    {key \in DOMAIN matchRecords :
        matchRecords[key].str = assignments(written.vFile)[n].str}

\* The assignments of the shared file are in the order of the keys of their
\* matches, which is the order in which the matches were created.
AssignmentsInKeyOrder ==
    pc = "batchPurgeAll" =>
        \A m, n \in 1..Len(assignments(written.vFile)) :
            m < n => \A k1 \in assignedKey(m), k2 \in assignedKey(n) : k1 < k2

\* Every identifier that the string of an assignment refers to is assigned
\* earlier in the shared file.
DefinedBeforeUse ==
    pc = "batchPurgeAll" =>
        \A n \in 1..Len(assignments(written.vFile)) :
            \A v \in tokenNames(assignments(written.vFile)[n].str) :
                \E m \in 1..(n - 1) : assignments(written.vFile)[m].var = v

\* C34: in the shared file the assignments appear in the order in which
\* their matches were created (the order of the keys), and an identifier
\* that the string of a match refers to is assigned earlier in the file than
\* the identifier of that match.
AssignmentsOrdered == AssignmentsInKeyOrder /\ DefinedBeforeUse

\* The same for the runs whose match collection has a single page.
AssignmentsOrderedOnOnePage ==
    batch.matches.batches = 1 => AssignmentsOrdered

(***************************************************************************)
(* The run on a corpus that spends the identifiers of one character: a     *)
(* file for each of the letters a to w that holds one tag of six           *)
(* characters twice, then the first five files of PagedCorpus, whose       *)
(* matches are judged while the current identifier is x, y and z.          *)
(***************************************************************************)
LongCorpus ==
    [n \in 1..(Len(Letters) - 3) |->
        [type |-> "text", justCopy |-> FALSE,
         content |-> <<"<", "t", Letters[n], "x", "y", ">",
                       "<", "t", Letters[n], "x", "y", ">">>]]
    \o SubSeq(PagedCorpus, 1, 5)

InitLong ==
    /\ pc = "processFiles"
    /\ options \in {RunOption(p, 500, ml, 0) : p \in {1, 2}, ml \in {0, 6}}
    /\ inPaths \in {SubSeq(LongCorpus, 1, n) : n \in (Len(LongCorpus) - 1)..Len(LongCorpus)}
    /\ Constructed
    /\ arg = <<>>
    /\ ret = <<>>

SpecLong == InitLong /\ [][Next]_vars

\* C35: for every replacement ever applied the match string is at least
\* minSaving characters longer than the reference token written for it,
\* also when the identifier is assigned in a later step than the one in
\* which the match was judged: every identifier issued to a match gives a
\* token that is at least minSaving shorter than the string of the match.
SavingKept ==
    \A n \in 1..Len(issued) :
        issued[n][1] \in DOMAIN matchRecords =>
            Len(matchRecords[issued[n][1]].str) - Len(shortCode(issued[n][2]))
                >= options.dedupe.minSaving

\* The same while the identifiers issued have the length of the first one.
SavingKeptAtOneLength ==
    (\A n \in 1..Len(issued) : Len(issued[n][2]) = 1) => SavingKept

(***************************************************************************)
(* Properties of the match finder on its own (SpecMatch).                  *)
(***************************************************************************)
\* The 0-based offsets of frags at which the run of k fragments run begins.
runOffsets(frags, run) ==
    {p \in 0..(Len(frags) - Len(run)) : SubSeq(frags, p + 1, p + Len(run)) = run}

\* The offsets a record lists for a sequence.
listedOffsets(match, name) ==
    IF name \in DOMAIN match.occ THEN keysOf(match.occ[name]) ELSE {}

\* C36: when a comparison of a with b has recorded a match for a run of k
\* fragments, the offsets the record lists for a and for b include every
\* offset of a and of b at which that run of k fragments begins, and the
\* total of the offsets listed is not lower than the number of occurrences
\* of the run in the sequences compared.
EveryOccurrenceListed ==
    \A n \in 1..Len(reported) :
        LET r   == reported[n]
            a   == arg.input[r.a_name + 1]
            b   == arg.input[r.b_name + 1]
            run == SubSeq(a, r.a_pos + 1, r.a_pos + r.k)
        IN  \A key \in DOMAIN matchRecords :
                matchRecords[key].str = r.str =>
                    /\ runOffsets(a, run) \subseteq listedOffsets(matchRecords[key], r.a_name)
                    /\ runOffsets(b, run) \subseteq listedOffsets(matchRecords[key], r.b_name)

\* The same for the two offsets of the pair that was reported.
ReportedOffsetsListed ==
    \A n \in 1..Len(reported) :
        \A key \in DOMAIN matchRecords :
            matchRecords[key].str = reported[n].str =>
                /\ reported[n].a_pos \in listedOffsets(matchRecords[key], reported[n].a_name)
                /\ reported[n].b_pos \in listedOffsets(matchRecords[key], reported[n].b_name)

(***************************************************************************)
(* The write of a deduplicated file on its own: a text is escaped and      *)
(* fragmented, the runs of one match are replaced by its token, and the    *)
(* statement that createOutFiles writes is built and cleaned by fixCodes.  *)
(***************************************************************************)
MaxCodeWords == 4

\* The pieces of the texts: a quote, and two tags.
CodeWords == {<<"'">>, <<"<", "z", ">">>, <<"<", "k", ">">>}

RECURSIVE CodeTexts(_)
CodeTexts(n) ==
    IF n = 0 THEN {<<>>}
    ELSE CodeTexts(n - 1) \cup {w \o text : w \in CodeWords, text \in CodeTexts(n - 1)}

\* The matches whose runs are replaced: a tag, and a run of two tags.
CodeMatches ==
    {[str |-> <<"<", "z", ">">>, var |-> <<"a">>, reps |-> 0],
     [str |-> <<"<", "z", ">", "<", "k", ">">>, var |-> <<"a">>, reps |-> 0]}

InitCodes ==
    /\ pc = "fixCodes"
    /\ options = RunOption(1, 500, 0, 0)
    /\ arg \in {[str |-> text, match |-> match] :
                   text \in CodeTexts(MaxCodeWords) \ {<<>>}, match \in CodeMatches}
    /\ ret = <<>>
    /\ inPaths = <<>>
    /\ Constructed

\* The statement written for a file whose fragments are r.frags (lines
\* 316-323), before and after fixCodes.
WrittenCodes(r) ==
    [deduped   |-> isSet(r.file, "deduped"),
     frags     |-> r.frags,
     uncleaned |-> prepend(vFileName) \o join(r.frags) \o append,
     cleaned   |-> fixCodes(prepend(vFileName) \o join(r.frags) \o append)]

CallFixCodes ==
    /\ pc = "fixCodes"
    /\ pc' = "returned"
    /\ ret' = WrittenCodes(doReplace(createFragments(addSlashes(arg.str)),
                                     arg.match, [type |-> "text"]))
    /\ UNCHANGED <<options, inPaths, batch, varName, pass, fileKey, escaped,
                   new_matches, reported, judged, issued, written, arg>>

NextCodes == CallFixCodes

SpecCodes == InitCodes /\ [][NextCodes]_vars

\* What the statement echo ...; of a written file evaluates to, in the form
\* of a fragment sequence joined (a literal as it stands, a variable as its
\* token); NoValue when the statement cannot be read.
echoed(statement) ==
    LET value == phpTerm(statement, Len(prepend(vFileName)), <<>>)
    IN  [ok |-> value.ok, str |-> value.str]

\* C37: fixCodes removes only the empty strings joined at the splices and
\* no character of a literal, an escaped quote in front of a token
\* included: the cleaned statement evaluates to the same text as the
\* uncleaned one, which is the fragments of the file joined.
CleanedEvaluatesSame ==
    pc = "returned" /\ ret.deduped =>
        /\ echoed(ret.uncleaned) = [ok |-> TRUE, str |-> join(ret.frags)]
        /\ echoed(ret.cleaned) = echoed(ret.uncleaned)

\* The same for the files in which no token stands behind an escaped quote.
CleanedEvaluatesSameWithoutQuoteBeforeToken ==
    (pc = "returned" =>
        \A n \in 1..(Len(ret.frags) - 1) :
            isToken(ret.frags[n + 1]) =>
                ret.frags[n][Len(ret.frags[n])] # "'" \/ isToken(ret.frags[n]))
    => CleanedEvaluatesSame

(***************************************************************************)
(* The run with the number of comparisons of a step capped                 *)
(* (options.dedupe.maxFileCompare).                                        *)
(***************************************************************************)
MaxCompare == 2

InitCapped ==
    /\ pc = "processFiles"
    /\ options \in {[RunOption(p, 500, ml, 0) EXCEPT !.dedupe.maxFileCompare = n] :
                       p \in {1, 2}, ml \in {0, 3}, n \in 1..MaxCompare}
    /\ inPaths \in {SubSeq(PagedCorpus, 1, n) : n \in 2..Len(PagedCorpus)}
    /\ Constructed
    /\ arg = <<>>
    /\ ret = <<>>

SpecCapped == InitCapped /\ [][Next]_vars

\* The sequences in which the last call of findDuplicates has reported a
\* common run: each of them was compared with the fragments of the file.
comparedWith == {reported[n].b_name : n \in DOMAIN reported}

\* C38: with the maximum-comparisons setting N > 0, findDuplicates compares
\* the fragments of a file with at most N fragment sequences, its own
\* included, so the runs it reports lie in at most N sequences.
ComparedAtMostN ==
    Cardinality(comparedWith) <= options.dedupe.maxFileCompare

\* What the loop does keep to: one sequence more than the setting.
ComparedAtMostOneMore ==
    /\ Cardinality(comparedWith) <= options.dedupe.maxFileCompare + 1
    /\ \A name \in comparedWith :
           ~isSet(batch.files.data[name], "skip")

(***************************************************************************)
(* Properties of the replacement applier on its own (SpecReplace).         *)
(***************************************************************************)
\* Whether some run of consecutive fragments concatenates to str.
hasRun(frags, str) ==
    \E i \in 1..Len(frags) : \E j \in i..Len(frags) :
        join(SubSeq(frags, i, j)) = str

\* The tokens a call has written: those of its result beyond those its
\* argument held.
inserted ==
    tokensIn(ret.frags, shortCode(arg.match.var))
        - tokensIn(arg.frags, shortCode(arg.match.var))

\* C39: doReplace adds to the counter of the match exactly the number of
\* tokens it has written, and a call that finds no run of fragments equal
\* to the match string returns the fragments as they were and leaves the
\* counter and the deduped flag of the file as they were.
CounterCountsTokens ==
    pc = "returned" =>
        /\ ret.match.reps = arg.match.reps + inserted
        /\ inserted >= 0
        /\ ~hasRun(arg.frags, arg.match.str) =>
               /\ ret.frags = arg.frags
               /\ ret.match = arg.match
               /\ ret.file = arg.file
               /\ ~isSet(ret.file, "deduped")

\* A call on an array that holds a token of the match already and two runs
\* of the string, the counter being 1 before it.
CounterCountsTokensWitness ==
    /\ pc = "returned"
    /\ arg.match.reps = 1
    /\ tokensIn(arg.frags, shortCode(arg.match.var)) = 1
    /\ inserted = 2
    /\ ret.match.reps = 3

\* A call that opens a window on the first fragment of the string and finds
\* no run.
NoRunFoundExample ==
    /\ pc = "returned"
    /\ arg.match.reps = 1
    /\ ~hasRun(arg.frags, arg.match.str)
    /\ \E n \in 1..Len(arg.frags) :
           /\ startsWith(arg.match.str, arg.frags[n])
           /\ arg.frags[n] # arg.match.str
    /\ ret.frags = arg.frags

(***************************************************************************)
(* Properties of the page files of the store (SpecStore).                  *)
(***************************************************************************)
\* The page that was resident before the step has been written with the
\* records it held.
leftFlushed ==
    /\ store.current \in DOMAIN store'.disk
    /\ store'.disk[store.current] = stringify(store.data)

\* The file of a page that is resident neither before nor after the step
\* is as it was.
othersKept ==
    \A page \in DOMAIN store.disk :
        page \notin {store.current, store'.current} =>
            store'.disk[page] = store.disk[page]

NoPageMissing ==
    ~batch.files.enoent /\ ~batch.matches.enoent

=============================================================================
